---- MODULE Spec2Model ----
(***************************************************************************)
(* A model of the groovekit command-line client: the short-ID resolvers of *)
(* the five resource kinds (jobs, API monitors, SSL monitors, DNS          *)
(* monitors, domain monitors), the config loader config.Load and the       *)
(* commands built on getAuthenticatedClient.                               *)
(*                                                                         *)
(* A Go string that is taken apart (an ID, a short ID) is a sequence of    *)
(* one-character strings; a Go error is the pair of its format and its     *)
(* argument, Nil being the nil error.                                      *)
(*                                                                         *)
(* SpecResolve runs one resolver on every short ID and list answer within  *)
(* the bounds. SpecCli runs command invocations against every environment  *)
(* and config file.                                                        *)
(***************************************************************************)
EXTENDS Integers, Sequences, FiniteSets, TLC

(* ------------------------------ bounds -------------------------------- *)

\* longest short identifier / candidate ID enumerated character by character
MaxLen == 2
\* longest listing returned by the backend
MaxItems == 3
\* largest input given to the two duration formatters: half-seconds for
\* formatIncidentDuration (a little over two days), minutes for FormatDuration
MaxInput == 346000
\* longest string given to truncate, and the widest column asked of it
MaxStr == 5
MaxWidth == 6
\* most values of a DNS monitor, expected or current
MaxValues == 2

(* -------------------------- program constants ------------------------- *)

\* if len(shortID) >= 32
MinFullIDLength == 32

(* ------------------------------ strings ------------------------------- *)

Chars == {"a", "A"}

StrUpTo(n) == UNION {[1..k -> Chars] : k \in 0..n}

Rep(c, n) == [i \in 1..n |-> c]

\* the identifiers a user types: every string up to MaxLen, and strings
\* one below, at and above the full-ID length
ShortIDs ==
  StrUpTo(MaxLen)
    \cup {Rep("a", MinFullIDLength - 1), Rep("a", MinFullIDLength),
          Rep("A", MinFullIDLength + 1)}

\* the IDs the backend holds: non-empty, short ones and a full-length one
CandidateIDs == (StrUpTo(MaxLen) \ {<<>>}) \cup {Rep("a", MinFullIDLength)}

\* a listing holds each resource once: IDs are the backend's primary keys
Listings ==
  {l \in UNION {[1..k -> CandidateIDs] : k \in 0..MaxItems} :
     \A i, j \in DOMAIN l : l[i] = l[j] => i = j}

(* ------------------------------- errors ------------------------------- *)

Nil == [format |-> "", arg |-> <<>>]

Errorf(format, arg) == [format |-> format, arg |-> arg]

\* a transport-level failure of an HTTP request
NetErr == Errorf("connection refused", <<>>)

(* ------------------------- short-ID resolvers ------------------------- *)

\* HasPrefix comparing with strings.EqualFold instead of ==
HasPrefix_IgnoreCase(id, shortID) ==
  /\ Len(id) >= Len(shortID)
  /\ \A i \in 1..Len(shortID) :
       (IF id[i] = "A" THEN "a" ELSE id[i]) = (IF shortID[i] = "A" THEN "a" ELSE shortID[i])

\* the prefix test refusing an empty shortID
HasPrefix_NonEmpty(id, shortID) ==
  Len(shortID) > 0 /\ Len(id) >= Len(shortID) /\ SubSeq(id, 1, Len(shortID)) = shortID

\* len(job.ID) >= len(shortID) && job.ID[:len(shortID)] == shortID
HasPrefix(id, shortID) ==
  Len(id) >= Len(shortID) /\ SubSeq(id, 1, Len(shortID)) = shortID

\* the matches slice built by the loop over the listing
Matches(items, shortID) == SelectSeq(items, LAMBDA id : HasPrefix(id, shortID))

\* resolveJobID returning matches[0] whenever there is a match
resolveJobID_PickFirst(shortID, resp) ==
  IF Len(shortID) >= MinFullIDLength
  THEN [id |-> shortID, err |-> Nil, calls |-> 0]
  ELSE IF resp.err # Nil
  THEN [id |-> <<>>, err |-> Errorf("failed to list jobs: %w", resp.err), calls |-> 1]
  ELSE LET matches == Matches(resp.items, shortID) IN
       IF Len(matches) = 0
       THEN [id |-> <<>>, err |-> Errorf("no job found with ID prefix '%s'", shortID),
             calls |-> 1]
       ELSE [id |-> matches[1], err |-> Nil, calls |-> 1]

\* resolveJobID calling ListJobs a second time when the first call failed
resolveJobID_RetryList(shortID, resp) ==
  IF Len(shortID) >= MinFullIDLength
  THEN [id |-> shortID, err |-> Nil, calls |-> 0]
  ELSE IF resp.err # Nil
  THEN [id |-> <<>>, err |-> Errorf("failed to list jobs: %w", resp.err), calls |-> 2]
  ELSE LET matches == Matches(resp.items, shortID) IN
       IF Len(matches) = 0
       THEN [id |-> <<>>, err |-> Errorf("no job found with ID prefix '%s'", shortID),
             calls |-> 1]
       ELSE IF Len(matches) > 1
       THEN [id |-> <<>>,
             err |-> Errorf("ambiguous ID prefix '%s' matches multiple jobs", shortID),
             calls |-> 1]
       ELSE [id |-> matches[1], err |-> Nil, calls |-> 1]

\* resp is the outcome of the one list call: [items, err]. The result is
\* the returned (id, err) and the number of list calls made.
resolveJobID(shortID, resp) ==
  IF Len(shortID) >= MinFullIDLength
  THEN [id |-> shortID, err |-> Nil, calls |-> 0]
  ELSE IF resp.err # Nil
  THEN [id |-> <<>>, err |-> Errorf("failed to list jobs: %w", resp.err), calls |-> 1]
  ELSE LET matches == Matches(resp.items, shortID) IN
       IF Len(matches) = 0
       THEN [id |-> <<>>, err |-> Errorf("no job found with ID prefix '%s'", shortID),
             calls |-> 1]
       ELSE IF Len(matches) > 1
       THEN [id |-> <<>>,
             err |-> Errorf("ambiguous ID prefix '%s' matches multiple jobs", shortID),
             calls |-> 1]
       ELSE [id |-> matches[1], err |-> Nil, calls |-> 1]

\* resolveMonitorID testing len(matches) >= 1 for ambiguity
resolveMonitorID_AmbiguousAtOne(shortID, resp) ==
  IF Len(shortID) >= MinFullIDLength
  THEN [id |-> shortID, err |-> Nil, calls |-> 0]
  ELSE IF resp.err # Nil
  THEN [id |-> <<>>, err |-> Errorf("failed to list monitors: %w", resp.err), calls |-> 1]
  ELSE LET matches == Matches(resp.items, shortID) IN
       IF Len(matches) = 0
       THEN [id |-> <<>>, err |-> Errorf("no monitor found with ID prefix '%s'", shortID),
             calls |-> 1]
       ELSE [id |-> <<>>,
             err |-> Errorf("ambiguous ID prefix '%s' matches multiple monitors", shortID),
             calls |-> 1]

resolveMonitorID(shortID, resp) ==
  IF Len(shortID) >= MinFullIDLength
  THEN [id |-> shortID, err |-> Nil, calls |-> 0]
  ELSE IF resp.err # Nil
  THEN [id |-> <<>>, err |-> Errorf("failed to list monitors: %w", resp.err), calls |-> 1]
  ELSE LET matches == Matches(resp.items, shortID) IN
       IF Len(matches) = 0
       THEN [id |-> <<>>, err |-> Errorf("no monitor found with ID prefix '%s'", shortID),
             calls |-> 1]
       ELSE IF Len(matches) > 1
       THEN [id |-> <<>>,
             err |-> Errorf("ambiguous ID prefix '%s' matches multiple monitors", shortID),
             calls |-> 1]
       ELSE [id |-> matches[1], err |-> Nil, calls |-> 1]

\* resolveCertID falling back to the short ID when nothing matches
resolveCertID_FallBack(shortID, resp) ==
  IF Len(shortID) >= MinFullIDLength
  THEN [id |-> shortID, err |-> Nil, calls |-> 0]
  ELSE IF resp.err # Nil
  THEN [id |-> <<>>, err |-> Errorf("failed to list SSL monitors: %w", resp.err),
        calls |-> 1]
  ELSE LET matches == Matches(resp.items, shortID) IN
       IF Len(matches) = 0
       THEN [id |-> shortID, err |-> Nil, calls |-> 1]
       ELSE IF Len(matches) > 1
       THEN [id |-> <<>>,
             err |-> Errorf("ambiguous ID prefix '%s' matches multiple certs", shortID),
             calls |-> 1]
       ELSE [id |-> matches[1], err |-> Nil, calls |-> 1]

resolveCertID(shortID, resp) ==
  IF Len(shortID) >= MinFullIDLength
  THEN [id |-> shortID, err |-> Nil, calls |-> 0]
  ELSE IF resp.err # Nil
  THEN [id |-> <<>>, err |-> Errorf("failed to list SSL monitors: %w", resp.err),
        calls |-> 1]
  ELSE LET matches == Matches(resp.items, shortID) IN
       IF Len(matches) = 0
       THEN [id |-> <<>>, err |-> Errorf("no cert found with ID prefix '%s'", shortID),
             calls |-> 1]
       ELSE IF Len(matches) > 1
       THEN [id |-> <<>>,
             err |-> Errorf("ambiguous ID prefix '%s' matches multiple certs", shortID),
             calls |-> 1]
       ELSE [id |-> matches[1], err |-> Nil, calls |-> 1]

\* resolveDnsMonitorID returning matches[0] whenever there is a match
resolveDnsMonitorID_PickFirst(shortID, resp) ==
  IF Len(shortID) >= MinFullIDLength
  THEN [id |-> shortID, err |-> Nil, calls |-> 0]
  ELSE IF resp.err # Nil
  THEN [id |-> <<>>, err |-> Errorf("failed to list DNS monitors: %w", resp.err),
        calls |-> 1]
  ELSE LET matches == Matches(resp.items, shortID) IN
       IF Len(matches) = 0
       THEN [id |-> <<>>,
             err |-> Errorf("no DNS monitor found with ID prefix '%s'", shortID),
             calls |-> 1]
       ELSE [id |-> matches[1], err |-> Nil, calls |-> 1]

resolveDnsMonitorID(shortID, resp) ==
  IF Len(shortID) >= MinFullIDLength
  THEN [id |-> shortID, err |-> Nil, calls |-> 0]
  ELSE IF resp.err # Nil
  THEN [id |-> <<>>, err |-> Errorf("failed to list DNS monitors: %w", resp.err),
        calls |-> 1]
  ELSE LET matches == Matches(resp.items, shortID) IN
       IF Len(matches) = 0
       THEN [id |-> <<>>,
             err |-> Errorf("no DNS monitor found with ID prefix '%s'", shortID),
             calls |-> 1]
       ELSE IF Len(matches) > 1
       THEN [id |-> <<>>,
             err |-> Errorf("ambiguous ID prefix '%s' matches multiple DNS monitors",
                            shortID),
             calls |-> 1]
       ELSE [id |-> matches[1], err |-> Nil, calls |-> 1]

\* resolveDomainID testing len(shortID) > 32
resolveDomainID_StrictThreshold(shortID, resp) ==
  IF Len(shortID) > MinFullIDLength
  THEN [id |-> shortID, err |-> Nil, calls |-> 0]
  ELSE IF resp.err # Nil
  THEN [id |-> <<>>, err |-> Errorf("failed to list domain monitors: %w", resp.err),
        calls |-> 1]
  ELSE LET matches == Matches(resp.items, shortID) IN
       IF Len(matches) = 0
       THEN [id |-> <<>>,
             err |-> Errorf("no domain monitor found with ID prefix '%s'", shortID),
             calls |-> 1]
       ELSE IF Len(matches) > 1
       THEN [id |-> <<>>,
             err |-> Errorf("ambiguous ID prefix '%s' matches multiple domain monitors",
                            shortID),
             calls |-> 1]
       ELSE [id |-> matches[1], err |-> Nil, calls |-> 1]

resolveDomainID(shortID, resp) ==
  IF Len(shortID) >= MinFullIDLength
  THEN [id |-> shortID, err |-> Nil, calls |-> 0]
  ELSE IF resp.err # Nil
  THEN [id |-> <<>>, err |-> Errorf("failed to list domain monitors: %w", resp.err),
        calls |-> 1]
  ELSE LET matches == Matches(resp.items, shortID) IN
       IF Len(matches) = 0
       THEN [id |-> <<>>,
             err |-> Errorf("no domain monitor found with ID prefix '%s'", shortID),
             calls |-> 1]
       ELSE IF Len(matches) > 1
       THEN [id |-> <<>>,
             err |-> Errorf("ambiguous ID prefix '%s' matches multiple domain monitors",
                            shortID),
             calls |-> 1]
       ELSE [id |-> matches[1], err |-> Nil, calls |-> 1]

(* ------------------------------- config ------------------------------- *)

\* return "https://api.groovekit.com"
DefaultAPIBaseURL == "https://api.groovekit.com"

\* the zero Config; Load returns it (a nil pointer) together with an error
NoConfig == [APIBaseURL |-> "", AccessToken |-> "", Email |-> ""]

\* os.ReadFile failing with something other than "does not exist"
ReadErr == Errorf("permission denied", <<>>)

\* json.Unmarshal failing
JSONErr == Errorf("invalid character", <<>>)

getAPIBaseURL(e) ==
  IF e.GROOVEKIT_API_URL # "" THEN e.GROOVEKIT_API_URL ELSE DefaultAPIBaseURL

\* Load keeping the file's api_base_url whenever the file has one
Load_FileURLFirst(file, e) ==
  IF file.state = "absent"
  THEN [cfg |-> [APIBaseURL |-> getAPIBaseURL(e), AccessToken |-> "", Email |-> ""],
        err |-> Nil]
  ELSE IF file.state = "unreadable" THEN [cfg |-> NoConfig, err |-> ReadErr]
  ELSE IF file.state = "corrupt" THEN [cfg |-> NoConfig, err |-> JSONErr]
  ELSE [cfg |-> [APIBaseURL |-> IF file.api_base_url # "" THEN file.api_base_url
                                ELSE getAPIBaseURL(e),
                 AccessToken |-> file.access_token,
                 Email |-> file.email],
        err |-> Nil]

\* file is ~/.groovekit/config.json, e the process environment
Load(file, e) ==
  IF file.state = "absent"
  THEN [cfg |-> [APIBaseURL |-> getAPIBaseURL(e), AccessToken |-> "", Email |-> ""],
        err |-> Nil]
  ELSE IF file.state = "unreadable" THEN [cfg |-> NoConfig, err |-> ReadErr]
  ELSE IF file.state = "corrupt" THEN [cfg |-> NoConfig, err |-> JSONErr]
  ELSE [cfg |-> [APIBaseURL |-> IF e.GROOVEKIT_API_URL # "" THEN e.GROOVEKIT_API_URL
                                ELSE IF file.api_base_url = "" THEN getAPIBaseURL(e)
                                ELSE file.api_base_url,
                 AccessToken |-> file.access_token,
                 Email |-> file.email],
        err |-> Nil]

IsAuthenticated(c) == c.AccessToken # ""

\* no file at ~/.groovekit/config.json
NoFile == [state |-> "absent", api_base_url |-> "", access_token |-> "", email |-> ""]

\* os.MkdirAll or os.WriteFile failing
WriteErr == Errorf("failed to write config file: %w", Errorf("permission denied", <<>>))

\* os.Remove on a file that is not there, and os.Remove refused
NotExistErr == Errorf("no such file or directory", <<>>)

RemoveErr == Errorf("operation not permitted", <<>>)

IsNotExist(err) == err = NotExistErr

\* c.Save(): file is what is on disk before, writable whether the file
\* system lets the directory and the file be written
Save(c, file, writable) ==
  IF ~writable THEN [file |-> file, err |-> WriteErr]
  ELSE [file |-> [state |-> "ok", api_base_url |-> c.APIBaseURL,
                  access_token |-> c.AccessToken, email |-> c.Email],
        err |-> Nil]

\* config.Clear(): os.Remove of the file, whatever it holds
Clear(file, removable) ==
  IF file.state = "absent" THEN [file |-> file, err |-> NotExistErr]
  ELSE IF ~removable THEN [file |-> file, err |-> RemoveErr]
  ELSE [file |-> NoFile, err |-> Nil]

(* ------------------------------ API client ---------------------------- *)

NoClient == [BaseURL |-> "", Token |-> ""]

NewClient(c) == [BaseURL |-> c.APIBaseURL, Token |-> c.AccessToken]

NoBody == [status |-> ""]

\* the request doRequest builds: the Authorization header is set only for
\* a non-empty token
Request(client, method, path, body) ==
  [method |-> method, base |-> client.BaseURL, path |-> path, body |-> body,
   auth |-> IF client.Token # "" THEN <<"Bearer", client.Token>> ELSE <<>>]

\* ---- the body of a response: a string, as everywhere one character per
\* element

Contains(s, sub) ==
  \E i \in 1..(Len(s) - Len(sub) + 1) : SubSeq(s, i, i + Len(sub) - 1) = sub

\* "<!DOCTYPE"
Doctype == <<"<", "!", "D", "O", "C", "T", "Y", "P", "E">>

\* the bodies shorter than this are shown raw
RawBodyLimit == 200

\* http.StatusText, for the statuses used here ("" for an unknown code)
StatusText(code) ==
  IF code = 300 THEN <<"M", "u", "l", "t", "i", "p", "l", "e", " ",
                       "C", "h", "o", "i", "c", "e", "s">>
  ELSE IF code = 401 THEN <<"U", "n", "a", "u", "t", "h", "o", "r", "i", "z", "e", "d">>
  ELSE IF code = 404 THEN <<"N", "o", "t", " ", "F", "o", "u", "n", "d">>
  ELSE IF code = 500 THEN <<"I", "n", "t", "e", "r", "n", "a", "l", " ",
                            "S", "e", "r", "v", "e", "r", " ", "E", "r", "r", "o", "r">>
  ELSE IF code = 502 THEN <<"B", "a", "d", " ", "G", "a", "t", "e", "w", "a", "y">>
  ELSE <<>>

\* ---- json.Unmarshal into struct{Error, Message string}, for the JSON
\* texts used here: an object whose members are strings without escapes,
\* spaces allowed around it; anything else is a syntax error

NotJSON == [ok |-> FALSE, Error |-> <<>>, Message |-> <<>>]

\* the first position from i on that holds no space; Len(s) + 1 if none
SkipSpaces(s, i) ==
  LET rest == {j \in i..Len(s) : s[j] # " "} IN
  IF i > Len(s) THEN i
  ELSE IF rest = {} THEN Len(s) + 1
  ELSE CHOOSE j \in rest : \A k \in rest : j <= k

\* the position of the quote that closes the string opened at s[i]; 0 if none
ClosingQuote(s, i) ==
  LET js == {j \in (i + 1)..Len(s) : s[j] = "\""} IN
  IF i > Len(s) \/ s[i] # "\"" \/ js = {} THEN 0
  ELSE CHOOSE j \in js : \A k \in js : j <= k

ErrorKey == <<"e", "r", "r", "o", "r">>

MessageKey == <<"m", "e", "s", "s", "a", "g", "e">>

\* the members from s[i] on, acc the fields decoded so far; a later member
\* of the same name replaces an earlier one, other names are ignored
RECURSIVE Members(_, _, _)

\* one member: its key opens at s[i] and closes at s[k], its value closes
\* at s[v]
Member(s, i, k, v, acc) ==
  IF k = 0 \/ k + 1 > Len(s) \/ s[k + 1] # ":" \/ v = 0 \/ v + 1 > Len(s)
  THEN NotJSON
  ELSE IF s[v + 1] = ","
  THEN Members(s, v + 2,
               [ok |-> TRUE,
                Error |-> IF SubSeq(s, i + 1, k - 1) = ErrorKey
                          THEN SubSeq(s, k + 3, v - 1) ELSE acc.Error,
                Message |-> IF SubSeq(s, i + 1, k - 1) = MessageKey
                            THEN SubSeq(s, k + 3, v - 1) ELSE acc.Message])
  ELSE IF s[v + 1] = "}" /\ SkipSpaces(s, v + 2) = Len(s) + 1
  THEN [ok |-> TRUE,
        Error |-> IF SubSeq(s, i + 1, k - 1) = ErrorKey
                  THEN SubSeq(s, k + 3, v - 1) ELSE acc.Error,
        Message |-> IF SubSeq(s, i + 1, k - 1) = MessageKey
                    THEN SubSeq(s, k + 3, v - 1) ELSE acc.Message]
  ELSE NotJSON

Members(s, i, acc) ==
  Member(s, i, ClosingQuote(s, i), ClosingQuote(s, ClosingQuote(s, i) + 2), acc)

\* the object that opens at s[i]
Object(s, i) ==
  IF i + 1 > Len(s) \/ s[i] # "{" THEN NotJSON
  ELSE IF s[i + 1] = "}"
  THEN (IF SkipSpaces(s, i + 2) = Len(s) + 1
        THEN [ok |-> TRUE, Error |-> <<>>, Message |-> <<>>]
        ELSE NotJSON)
  ELSE Members(s, i + 1, [ok |-> TRUE, Error |-> <<>>, Message |-> <<>>])

Unmarshal(s) == Object(s, SkipSpaces(s, 1))

\* ---- doRequest

APIError(status, text) == Errorf("API error (status %d): %s", <<status, text>>)

\* the error of a non-2xx response with the JSON fields tried before the
\* HTML test
errorText_JSONFirst(status, bodyStr, errResp) ==
  IF errResp.ok /\ errResp.Error # <<>> THEN APIError(status, errResp.Error)
  ELSE IF errResp.ok /\ errResp.Message # <<>> THEN APIError(status, errResp.Message)
  ELSE IF Len(bodyStr) > 0 /\ (bodyStr[1] = "<" \/ Contains(bodyStr, Doctype))
  THEN APIError(status, StatusText(status))
  ELSE IF Len(bodyStr) < RawBodyLimit THEN APIError(status, bodyStr)
  ELSE APIError(status, StatusText(status))

\* the error doRequest returns for a non-2xx response with body bodyStr
\* that json.Unmarshal decodes to errResp
errorText(status, bodyStr, errResp) ==
  IF Len(bodyStr) > 0 /\ (bodyStr[1] = "<" \/ Contains(bodyStr, Doctype))
  THEN APIError(status, StatusText(status))
  ELSE IF errResp.ok /\ errResp.Error # <<>> THEN APIError(status, errResp.Error)
  ELSE IF errResp.ok /\ errResp.Message # <<>> THEN APIError(status, errResp.Message)
  ELSE IF Len(bodyStr) < RawBodyLimit THEN APIError(status, bodyStr)
  ELSE APIError(status, StatusText(status))

errorOf(status, bodyStr) == errorText(status, bodyStr, Unmarshal(bodyStr))

\* one exchange as the log of an invocation keeps it: the request, what the
\* network and the backend answered, and the error returned for it
Exchange(req, ans, err) ==
  [method |-> req.method, base |-> req.base, path |-> req.path, body |-> req.body,
   auth |-> req.auth, resp |-> ans, err |-> err]

\* ans is what the network and the backend do with the request:
\* [transport, status, body, decode, items]; transport is the error of
\* HTTPClient.Do, decode the error of decoding a 2xx body into the result,
\* items what a 2xx body decodes to
answerOf(wantResult, ans) ==
  IF ans.transport # Nil THEN [err |-> ans.transport, items |-> <<>>]
  ELSE IF ans.status < 200 \/ ans.status >= 300
  THEN [err |-> errorOf(ans.status, ans.body), items |-> <<>>]
  ELSE IF wantResult /\ ans.decode # Nil THEN [err |-> ans.decode, items |-> <<>>]
  ELSE [err |-> Nil, items |-> IF wantResult THEN ans.items ELSE <<>>]

\* what doRequest hands back once the request x got the answer a: what
\* went over the network (the one request, with its outcome), the error
\* and the decoded result
Sent(x, ans, a) ==
  [reqs |-> <<Exchange(x, ans, a.err)>>, err |-> a.err, items |-> a.items]

\* doRequest sending the request once more after a failure
doRequest_Retry(client, method, path, body, wantResult, ans) ==
  [reqs |-> IF answerOf(wantResult, ans).err # Nil
            THEN Sent(Request(client, method, path, body), ans,
                      answerOf(wantResult, ans)).reqs
                 \o Sent(Request(client, method, path, body), ans,
                         answerOf(wantResult, ans)).reqs
            ELSE Sent(Request(client, method, path, body), ans,
                      answerOf(wantResult, ans)).reqs,
   err |-> answerOf(wantResult, ans).err,
   items |-> answerOf(wantResult, ans).items]

doRequest(client, method, path, body, wantResult, ans) ==
  Sent(Request(client, method, path, body), ans, answerOf(wantResult, ans))

\* ---- update requests: every field is a pointer tagged omitempty

\* a nil pointer
Unset == [set |-> FALSE]

\* &v
Ptr(v) == [set |-> TRUE, val |-> v]

\* &api.UpdateJobRequest{}
UpdateJobRequest ==
  [name |-> Unset, interval |-> Unset, grace_period |-> Unset, status |-> Unset,
   webhook_url |-> Unset, webhook_secret |-> Unset, allowed_ips |-> Unset]

\* &api.UpdateMonitorRequest{}
UpdateMonitorRequest ==
  [name |-> Unset, url |-> Unset, http_method |-> Unset, interval |-> Unset,
   expected_status_codes |-> Unset, timeout |-> Unset, grace_period |-> Unset,
   status |-> Unset]

\* json.Marshal writing every field, null for a nil pointer
Marshal_NoOmitempty(req) ==
  [f \in DOMAIN req |-> IF req[f].set THEN req[f].val ELSE "null"]

\* json.Marshal of an update request: a nil pointer is omitted, a pointer
\* to a zero value is written
Marshal(req) == [f \in {g \in DOMAIN req : req[g].set} |-> req[f].val]

ListJobs(client, ans) == doRequest(client, "GET", <<"/jobs">>, NoBody, TRUE, ans)

UpdateJob(client, id, req, ans) ==
  doRequest(client, "PUT", <<"/jobs/", id>>, [job |-> Marshal(req)], TRUE, ans)

ListMonitors(client, ans) ==
  doRequest(client, "GET", <<"/api_monitors">>, NoBody, TRUE, ans)

UpdateMonitor(client, id, req, ans) ==
  doRequest(client, "PUT", <<"/api_monitors/", id>>, [api_monitor |-> Marshal(req)],
            TRUE, ans)

GetAccount(client, ans) == doRequest(client, "GET", <<"/users/me">>, NoBody, TRUE, ans)

DeleteJob(client, id, ans) ==
  doRequest(client, "DELETE", <<"/jobs/", id>>, NoBody, FALSE, ans)

ListDnsMonitors(client, ans) ==
  doRequest(client, "GET", <<"/dns_monitors">>, NoBody, TRUE, ans)

DeleteDnsMonitor(client, id, ans) ==
  doRequest(client, "DELETE", <<"/dns_monitors/", id>>, NoBody, FALSE, ans)

\* getAuthenticatedClient creating the client without asking IsAuthenticated
getAuthenticatedClient_NoAuthCheck(file, e) ==
  LET l == Load(file, e) IN
  IF l.err # Nil
  THEN [client |-> NoClient, err |-> Errorf("failed to load config: %w", l.err)]
  ELSE [client |-> NewClient(l.cfg), err |-> Nil]

getAuthenticatedClient(file, e) ==
  LET l == Load(file, e) IN
  IF l.err # Nil
  THEN [client |-> NoClient, err |-> Errorf("failed to load config: %w", l.err)]
  ELSE IF ~IsAuthenticated(l.cfg)
  THEN [client |-> NoClient,
        err |-> Errorf("not logged in. Run 'groovekit auth login' first", <<>>)]
  ELSE [client |-> NewClient(l.cfg), err |-> Nil]

\* ---- Login

\* Login taking every 2xx status for a success
Login_Any2xx(client, email, password, ans) ==
  LET req == [method |-> "POST", base |-> client.BaseURL, path |-> <<"/tokens">>,
              body |-> [email |-> email, password |-> password], auth |-> <<>>]
      err == IF ans.transport # Nil THEN Errorf("login request failed: %w", ans.transport)
             ELSE IF ans.status < 200 \/ ans.status >= 300
             THEN Errorf("login failed: %s", ans.body)
             ELSE ans.decode
  IN [token |-> IF err = Nil THEN ans.access_token ELSE "",
      err |-> err,
      reqs |-> <<Exchange(req, ans, err)>>]

\* ans is [transport, status, body, decode, access_token]; the request
\* carries no Authorization header
Login(client, email, password, ans) ==
  LET req == [method |-> "POST", base |-> client.BaseURL, path |-> <<"/tokens">>,
              body |-> [email |-> email, password |-> password], auth |-> <<>>]
      err == IF ans.transport # Nil THEN Errorf("login request failed: %w", ans.transport)
             ELSE IF ans.status # 201 THEN Errorf("login failed: %s", ans.body)
             ELSE ans.decode
  IN [token |-> IF err = Nil THEN ans.access_token ELSE "",
      err |-> err,
      reqs |-> <<Exchange(req, ans, err)>>]

\* ---- the commands

\* s repeated n times
RECURSIVE Times(_, _)
Times(s, n) == IF n <= 0 THEN <<>> ELSE s \o Times(s, n - 1)

\* Login was not called
NoLogin == [token |-> "", err |-> Nil, reqs |-> <<>>]

\* Load was not called
NotLoaded == [cfg |-> NoConfig, err |-> Nil]

\* fmt.Scanln(&response) storing only the first character of the word
Scanln_FirstCharacter(line) ==
  IF SkipSpaces(line, 1) > Len(line) THEN <<>> ELSE <<line[SkipSpaces(line, 1)]>>

\* fmt.Scanln(&response) on the line the user typed: leading spaces are
\* skipped and the first word is stored; an empty line, or more words after
\* the first, make Scanln return an error that the commands ignore
Scanln(line) ==
  LET i == SkipSpaces(line, 1)
      ends == {j \in i..Len(line) : line[j] = " "}
      stop == IF ends = {} THEN Len(line) + 1 ELSE CHOOSE j \in ends : \A k \in ends : j <= k
  IN SubSeq(line, i, stop - 1)

\* response != "y" && response != "Y"
Declined(response) == response # <<"y">> /\ response # <<"Y">>

\* the requests as steps of the invocation
Requests(reqs) == [i \in DOMAIN reqs |-> "request"]

\* s.Start() and the API call, the spinner left running
Spun_NeverStopped(reqs) == <<"spinner start">> \o Requests(reqs)

\* s.Start(); the API call; s.Stop()
Spun(reqs) == <<"spinner start">> \o Requests(reqs) \o <<"spinner stop">>

\* the spinner is created and started only without --json, and stopped
\* only if it was created
SpunUnlessJSON(jsonOutput, reqs) == IF jsonOutput THEN Requests(reqs) ELSE Spun(reqs)

\* a line the command prints once it has succeeded
Says(err, line) == IF err # Nil THEN <<>> ELSE <<line>>

\* auth login saving the credentials whatever Login returned
loginCmd_SaveAlways(file, e, email, passwordErr, ans, writable) ==
  LET l == Load(file, e)
      r == Login(NewClient(l.cfg), email, "secret", ans)
      saved == Save([l.cfg EXCEPT !.AccessToken = r.token, !.Email = email],
                    file, writable)
      asked == <<"Email: ", "Password: ">>
  IN IF passwordErr # Nil
     THEN [err |-> Errorf("failed to read password: %w", passwordErr), file |-> file,
           reqs |-> <<>>, load |-> NotLoaded, login |-> NoLogin, events |-> asked]
     ELSE IF l.err # Nil
     THEN [err |-> Errorf("failed to load config: %w", l.err), file |-> file,
           reqs |-> <<>>, load |-> l, login |-> NoLogin, events |-> asked \o <<"\n">>]
     ELSE IF saved.err # Nil
     THEN [err |-> Errorf("failed to save config: %w", saved.err), file |-> saved.file,
           reqs |-> r.reqs, load |-> l, login |-> r,
           events |-> asked \o <<"\n">> \o Spun(r.reqs)]
     ELSE [err |-> IF r.err # Nil THEN Errorf("login failed: %w", r.err) ELSE Nil,
           file |-> saved.file, reqs |-> r.reqs, load |-> l, login |-> r,
           events |-> asked \o <<"\n">> \o Spun(r.reqs)
                      \o Says(r.err, "Logged in successfully")]

\* auth login: email is the word read from the terminal, passwordErr the
\* error of term.ReadPassword
loginCmd(file, e, email, passwordErr, ans, writable) ==
  LET l == Load(file, e)
      r == Login(NewClient(l.cfg), email, "secret", ans)
      saved == Save([l.cfg EXCEPT !.AccessToken = r.token, !.Email = email],
                    file, writable)
      asked == <<"Email: ", "Password: ">>
  IN IF passwordErr # Nil
     THEN [err |-> Errorf("failed to read password: %w", passwordErr), file |-> file,
           reqs |-> <<>>, load |-> NotLoaded, login |-> NoLogin, events |-> asked]
     ELSE IF l.err # Nil
     THEN [err |-> Errorf("failed to load config: %w", l.err), file |-> file,
           reqs |-> <<>>, load |-> l, login |-> NoLogin, events |-> asked \o <<"\n">>]
     ELSE IF r.err # Nil
     THEN [err |-> Errorf("login failed: %w", r.err), file |-> file,
           reqs |-> r.reqs, load |-> l, login |-> r,
           events |-> asked \o <<"\n">> \o Spun(r.reqs)]
     ELSE IF saved.err # Nil
     THEN [err |-> Errorf("failed to save config: %w", saved.err), file |-> saved.file,
           reqs |-> r.reqs, load |-> l, login |-> r,
           events |-> asked \o <<"\n">> \o Spun(r.reqs)]
     ELSE [err |-> Nil, file |-> saved.file, reqs |-> r.reqs, load |-> l, login |-> r,
           events |-> asked \o <<"\n">> \o Spun(r.reqs) \o <<"Logged in successfully">>]

\* auth logout
logoutCmd(file, removable) ==
  LET c == Clear(file, removable) IN
  IF c.err # Nil
  THEN IF IsNotExist(c.err)
       THEN [err |-> Nil, file |-> c.file, events |-> <<"Not currently logged in">>]
       ELSE [err |-> Errorf("failed to logout: %w", c.err), file |-> c.file,
             events |-> <<>>]
  ELSE [err |-> Nil, file |-> c.file, events |-> <<"Logged out successfully">>]

\* jobs list [--json]
jobsListCmd(file, e, jsonOutput, ans) ==
  LET a == getAuthenticatedClient(file, e)
      r == ListJobs(a.client, ans)
  IN IF a.err # Nil THEN [err |-> a.err, reqs |-> <<>>, events |-> <<>>]
     ELSE IF r.err # Nil
     THEN [err |-> Errorf("failed to list jobs: %w", r.err), reqs |-> r.reqs,
           events |-> SpunUnlessJSON(jsonOutput, r.reqs)]
     ELSE [err |-> Nil, reqs |-> r.reqs,
           events |-> SpunUnlessJSON(jsonOutput, r.reqs)
                      \o <<IF jsonOutput THEN "JSON"
                           ELSE IF Len(r.items) = 0 THEN "No jobs found"
                           ELSE "table">>]

\* account show [--json]
accountShowCmd(file, e, jsonOutput, ans) ==
  LET a == getAuthenticatedClient(file, e)
      r == GetAccount(a.client, ans)
  IN IF a.err # Nil THEN [err |-> a.err, reqs |-> <<>>, events |-> <<>>]
     ELSE IF r.err # Nil
     THEN [err |-> Errorf("failed to get account: %w", r.err), reqs |-> r.reqs,
           events |-> SpunUnlessJSON(jsonOutput, r.reqs)]
     ELSE [err |-> Nil, reqs |-> r.reqs,
           events |-> SpunUnlessJSON(jsonOutput, r.reqs)
                      \o <<IF jsonOutput THEN "JSON" ELSE "Account Information">>]

\* the pointer a field of the update request gets from its flag:
\* if cmd.Flags().Changed(f) { v, _ := cmd.Flags().Get...(f); req.F = &v }
Flag(changed, f) == IF f \in DOMAIN changed THEN Ptr(changed[f]) ELSE Unset

\* jobs update sending the request whether or not a flag was set
jobsUpdateCmd_NoFlagCheck(file, e, id, changed, listAns, putAns) ==
  LET a == getAuthenticatedClient(file, e)
      l == ListJobs(a.client, listAns)
      r == resolveJobID(id, [items |-> l.items, err |-> l.err])
      listed == Times(l.reqs, r.calls)
      req == [UpdateJobRequest EXCEPT !.name = Flag(changed, "name"),
                                      !.interval = Flag(changed, "interval"),
                                      !.grace_period = Flag(changed, "grace-period"),
                                      !.status = Flag(changed, "status"),
                                      !.webhook_url = Flag(changed, "webhook-url"),
                                      !.webhook_secret = Flag(changed, "webhook-secret")]
      u == UpdateJob(a.client, r.id, req, putAns)
  IN IF a.err # Nil THEN [err |-> a.err, reqs |-> <<>>, events |-> <<>>]
     ELSE IF r.err # Nil
     THEN [err |-> r.err, reqs |-> listed, events |-> Requests(listed)]
     ELSE [err |-> IF u.err # Nil THEN Errorf("failed to update job: %w", u.err)
                   ELSE Nil,
           reqs |-> listed \o u.reqs,
           events |-> Requests(listed) \o Spun(u.reqs)
                      \o Says(u.err, "Job updated successfully")]

\* jobs update <id>: changed gives the value of every flag that was set on
\* the command line
jobsUpdateCmd(file, e, id, changed, listAns, putAns) ==
  LET a == getAuthenticatedClient(file, e)
      l == ListJobs(a.client, listAns)
      r == resolveJobID(id, [items |-> l.items, err |-> l.err])
      listed == Times(l.reqs, r.calls)
      req == [UpdateJobRequest EXCEPT !.name = Flag(changed, "name"),
                                      !.interval = Flag(changed, "interval"),
                                      !.grace_period = Flag(changed, "grace-period"),
                                      !.status = Flag(changed, "status"),
                                      !.webhook_url = Flag(changed, "webhook-url"),
                                      !.webhook_secret = Flag(changed, "webhook-secret")]
      hasUpdates == \E f \in {"name", "interval", "grace-period", "status",
                               "webhook-url", "webhook-secret"} : f \in DOMAIN changed
      u == UpdateJob(a.client, r.id, req, putAns)
  IN IF a.err # Nil THEN [err |-> a.err, reqs |-> <<>>, events |-> <<>>]
     ELSE IF r.err # Nil
     THEN [err |-> r.err, reqs |-> listed, events |-> Requests(listed)]
     ELSE IF ~hasUpdates
     THEN [err |-> Errorf("no fields to update. Use --name, --interval, --grace-period, --status, --webhook-url, or --webhook-secret",
                          <<>>),
           reqs |-> listed, events |-> Requests(listed)]
     ELSE [err |-> IF u.err # Nil THEN Errorf("failed to update job: %w", u.err)
                   ELSE Nil,
           reqs |-> listed \o u.reqs,
           events |-> Requests(listed) \o Spun(u.reqs)
                      \o Says(u.err, "Job updated successfully")]

\* jobs pause <id>
jobsPauseCmd(file, e, id, listAns, putAns) ==
  LET a == getAuthenticatedClient(file, e)
      l == ListJobs(a.client, listAns)
      r == resolveJobID(id, [items |-> l.items, err |-> l.err])
      listed == Times(l.reqs, r.calls)
      u == UpdateJob(a.client, r.id, [UpdateJobRequest EXCEPT !.status = Ptr("paused")],
                     putAns)
  IN IF a.err # Nil THEN [err |-> a.err, reqs |-> <<>>, events |-> <<>>]
     ELSE IF r.err # Nil
     THEN [err |-> r.err, reqs |-> listed, events |-> Requests(listed)]
     ELSE [err |-> IF u.err # Nil THEN Errorf("failed to pause job: %w", u.err)
                   ELSE Nil,
           reqs |-> listed \o u.reqs,
           events |-> Requests(listed) \o Spun(u.reqs)
                      \o Says(u.err, "Job paused successfully")]

\* jobs resume <id>
jobsResumeCmd(file, e, id, listAns, putAns) ==
  LET a == getAuthenticatedClient(file, e)
      l == ListJobs(a.client, listAns)
      r == resolveJobID(id, [items |-> l.items, err |-> l.err])
      listed == Times(l.reqs, r.calls)
      u == UpdateJob(a.client, r.id, [UpdateJobRequest EXCEPT !.status = Ptr("active")],
                     putAns)
  IN IF a.err # Nil THEN [err |-> a.err, reqs |-> <<>>, events |-> <<>>]
     ELSE IF r.err # Nil
     THEN [err |-> r.err, reqs |-> listed, events |-> Requests(listed)]
     ELSE [err |-> IF u.err # Nil THEN Errorf("failed to resume job: %w", u.err)
                   ELSE Nil,
           reqs |-> listed \o u.reqs,
           events |-> Requests(listed) \o Spun(u.reqs)
                      \o Says(u.err, "Job resumed successfully")]

\* monitors pause <id>: the update runs without a spinner
monitorsPauseCmd(file, e, id, listAns, putAns) ==
  LET a == getAuthenticatedClient(file, e)
      l == ListMonitors(a.client, listAns)
      r == resolveMonitorID(id, [items |-> l.items, err |-> l.err])
      listed == Times(l.reqs, r.calls)
      u == UpdateMonitor(a.client, r.id,
                         [UpdateMonitorRequest EXCEPT !.status = Ptr("paused")], putAns)
  IN IF a.err # Nil THEN [err |-> a.err, reqs |-> <<>>, events |-> <<>>]
     ELSE IF r.err # Nil
     THEN [err |-> r.err, reqs |-> listed, events |-> Requests(listed)]
     ELSE [err |-> IF u.err # Nil THEN Errorf("failed to pause monitor: %w", u.err)
                   ELSE Nil,
           reqs |-> listed \o u.reqs,
           events |-> Requests(listed) \o Requests(u.reqs)
                      \o Says(u.err, "Monitor paused successfully")]

\* monitors resume <id>
monitorsResumeCmd(file, e, id, listAns, putAns) ==
  LET a == getAuthenticatedClient(file, e)
      l == ListMonitors(a.client, listAns)
      r == resolveMonitorID(id, [items |-> l.items, err |-> l.err])
      listed == Times(l.reqs, r.calls)
      u == UpdateMonitor(a.client, r.id,
                         [UpdateMonitorRequest EXCEPT !.status = Ptr("active")], putAns)
  IN IF a.err # Nil THEN [err |-> a.err, reqs |-> <<>>, events |-> <<>>]
     ELSE IF r.err # Nil
     THEN [err |-> r.err, reqs |-> listed, events |-> Requests(listed)]
     ELSE [err |-> IF u.err # Nil THEN Errorf("failed to resume monitor: %w", u.err)
                   ELSE Nil,
           reqs |-> listed \o u.reqs,
           events |-> Requests(listed) \o Requests(u.reqs)
                      \o Says(u.err, "Monitor resumed successfully")]

\* jobs delete returning nil whatever DeleteJob returned
jobsDeleteCmd_IgnoreDeleteError(file, e, id, force, line, listAns, delAns) ==
  LET a == getAuthenticatedClient(file, e)
      l == ListJobs(a.client, listAns)
      r == resolveJobID(id, [items |-> l.items, err |-> l.err])
      listed == Times(l.reqs, r.calls)
      d == DeleteJob(a.client, r.id, delAns)
      asked == IF force THEN <<>> ELSE <<"Are you sure">>
  IN IF a.err # Nil
     THEN [err |-> a.err, reqs |-> <<>>, prompts |-> <<>>, events |-> <<>>]
     ELSE IF r.err # Nil
     THEN [err |-> r.err, reqs |-> listed, prompts |-> <<>>, events |-> Requests(listed)]
     ELSE IF ~force /\ Declined(Scanln(line))
     THEN [err |-> Nil, reqs |-> listed, prompts |-> asked,
           events |-> Requests(listed) \o asked \o <<"Cancelled">>]
     ELSE [err |-> Nil,
           reqs |-> listed \o d.reqs,
           prompts |-> asked,
           events |-> Requests(listed) \o asked \o Spun(d.reqs)
                      \o <<"Job deleted successfully">>]

\* jobs delete <id>: force is the --force flag, line what the user types
\* at the prompt
jobsDeleteCmd(file, e, id, force, line, listAns, delAns) ==
  LET a == getAuthenticatedClient(file, e)
      l == ListJobs(a.client, listAns)
      r == resolveJobID(id, [items |-> l.items, err |-> l.err])
      listed == Times(l.reqs, r.calls)
      d == DeleteJob(a.client, r.id, delAns)
      asked == IF force THEN <<>> ELSE <<"Are you sure">>
  IN IF a.err # Nil
     THEN [err |-> a.err, reqs |-> <<>>, prompts |-> <<>>, events |-> <<>>]
     ELSE IF r.err # Nil
     THEN [err |-> r.err, reqs |-> listed, prompts |-> <<>>, events |-> Requests(listed)]
     ELSE IF ~force /\ Declined(Scanln(line))
     THEN [err |-> Nil, reqs |-> listed, prompts |-> asked,
           events |-> Requests(listed) \o asked \o <<"Cancelled">>]
     ELSE [err |-> IF d.err # Nil THEN Errorf("failed to delete job: %w", d.err)
                   ELSE Nil,
           reqs |-> listed \o d.reqs,
           prompts |-> asked,
           events |-> Requests(listed) \o asked \o Spun(d.reqs)
                      \o Says(d.err, "Job deleted successfully")]

\* dns delete <id>
dnsDeleteCmd(file, e, id, force, line, listAns, delAns) ==
  LET a == getAuthenticatedClient(file, e)
      l == ListDnsMonitors(a.client, listAns)
      r == resolveDnsMonitorID(id, [items |-> l.items, err |-> l.err])
      listed == Times(l.reqs, r.calls)
      d == DeleteDnsMonitor(a.client, r.id, delAns)
      asked == IF force THEN <<>> ELSE <<"Are you sure">>
  IN IF a.err # Nil
     THEN [err |-> a.err, reqs |-> <<>>, prompts |-> <<>>, events |-> <<>>]
     ELSE IF r.err # Nil
     THEN [err |-> r.err, reqs |-> listed, prompts |-> <<>>, events |-> Requests(listed)]
     ELSE IF ~force /\ Declined(Scanln(line))
     THEN [err |-> Nil, reqs |-> listed, prompts |-> asked,
           events |-> Requests(listed) \o asked \o <<"Cancelled">>]
     ELSE [err |-> IF d.err # Nil THEN Errorf("failed to delete DNS monitor: %w", d.err)
                   ELSE Nil,
           reqs |-> listed \o d.reqs,
           prompts |-> asked,
           events |-> Requests(listed) \o asked \o Spun(d.reqs)
                      \o Says(d.err, "DNS monitor deleted successfully")]

(* ------------------------ duration formatters ------------------------- *)

\* fmt.Sprintf("%.0f", n/d): the nearest integer, an exact half going to
\* the even neighbour (n/d with a fraction of one half is a float64)
RoundHalfEven(n, d) ==
  LET q == n \div d
      r == n % d
  IN IF 2 * r > d \/ (2 * r = d /\ q % 2 = 1) THEN q + 1 ELSE q

\* fmt.Sprintf("%.1f", x), in tenths, for x = n/(10*d). When x lies midway
\* between two tenths it is a float64 only if it is a multiple of 1/4, and
\* then goes to the even tenth; otherwise the float64 nearest to x lies
\* above the midpoint (up) or below it, and that decides.
RoundTenths(n, d, up) ==
  LET q == n \div d
      r == n % d
  IN IF 2 * r > d THEN q + 1
     ELSE IF 2 * r < d THEN q
     ELSE IF (2 * q + 1) % 5 = 0 THEN (IF q % 2 = 1 THEN q + 1 ELSE q)
     ELSE IF up THEN q + 1 ELSE q

\* what a formatter prints: a number, one decimal (none: NoDecimal) and
\* the text that follows
NoDecimal == 0 - 1

Printed(whole, tenths, unit) == [whole |-> whole, tenths |-> tenths, unit |-> unit]

OneDecimal(t, unit) == Printed(t \div 10, t % 10, unit)

\* formatIncidentDuration comparing with <= at each threshold
formatIncidentDuration_InclusiveThresholds(h, up) ==
  IF h <= 2 * 60 THEN Printed(RoundHalfEven(h, 2), NoDecimal, "s")
  ELSE IF h <= 2 * 60 * 60 THEN Printed(RoundHalfEven(h, 2 * 60), NoDecimal, "m")
  ELSE IF h <= 2 * 60 * 60 * 24 THEN OneDecimal(RoundTenths(h, 2 * 6 * 60, up), "h")
  ELSE OneDecimal(RoundTenths(h, 2 * 6 * 60 * 24, up), "d")

\* formatIncidentDuration printing int(minutes) instead of %.0f
formatIncidentDuration_TruncatedMinutes(h, up) ==
  IF h < 2 * 60 THEN Printed(RoundHalfEven(h, 2), NoDecimal, "s")
  ELSE IF h < 2 * 60 * 60 THEN Printed(h \div (2 * 60), NoDecimal, "m")
  ELSE IF h < 2 * 60 * 60 * 24 THEN OneDecimal(RoundTenths(h, 2 * 6 * 60, up), "h")
  ELSE OneDecimal(RoundTenths(h, 2 * 6 * 60 * 24, up), "d")

\* the argument is h half-seconds, seconds = h/2; up is the side of a
\* decimal midpoint on which the float64 of hours or days lies
formatIncidentDuration(h, up) ==
  IF h < 2 * 60 THEN Printed(RoundHalfEven(h, 2), NoDecimal, "s")
  ELSE IF h < 2 * 60 * 60 THEN Printed(RoundHalfEven(h, 2 * 60), NoDecimal, "m")
  ELSE IF h < 2 * 60 * 60 * 24 THEN OneDecimal(RoundTenths(h, 2 * 6 * 60, up), "h")
  ELSE OneDecimal(RoundTenths(h, 2 * 6 * 60 * 24, up), "d")

\* FormatDuration without the singular forms
FormatDuration_AlwaysPlural(minutes) ==
  IF minutes < 60 THEN Printed(minutes, NoDecimal, " minutes")
  ELSE IF minutes < 1440 THEN Printed(minutes \div 60, NoDecimal, " hours")
  ELSE Printed(minutes \div 1440, NoDecimal, " days")

FormatDuration(minutes) ==
  IF minutes < 60
  THEN IF minutes = 1 THEN Printed(1, NoDecimal, " minute")
       ELSE Printed(minutes, NoDecimal, " minutes")
  ELSE IF minutes < 1440
  THEN LET hours == minutes \div 60 IN
       IF hours = 1 THEN Printed(1, NoDecimal, " hour")
       ELSE Printed(hours, NoDecimal, " hours")
  ELSE LET days == minutes \div 1440 IN
       IF days = 1 THEN Printed(1, NoDecimal, " day")
       ELSE Printed(days, NoDecimal, " days")

(* ---------------------------- output helpers -------------------------- *)

\* "..."
Dots == <<".", ".", ".">>

\* what a Go slice expression s[:n] gives: a run-time panic when n is
\* negative or beyond len(s)
Panic == [panic |-> TRUE, out |-> <<>>]

\* truncate keeping maxLen bytes before the dots
truncate_KeepMaxLen(s, maxLen) ==
  IF Len(s) <= maxLen THEN [panic |-> FALSE, out |-> s]
  ELSE IF maxLen < 0 THEN Panic
  ELSE [panic |-> FALSE, out |-> SubSeq(s, 1, maxLen) \o Dots]

truncate(s, maxLen) ==
  IF Len(s) <= maxLen THEN [panic |-> FALSE, out |-> s]
  ELSE IF maxLen - 3 < 0 THEN Panic
  ELSE [panic |-> FALSE, out |-> SubSeq(s, 1, maxLen - 3) \o Dots]

\* the width of the ID column of the list commands
IDColumnWidth == 8

\* the ID column cut at seven characters
IDColumn_Seven(id) ==
  IF Len(id) > IDColumnWidth THEN SubSeq(id, 1, IDColumnWidth - 1) ELSE id

\* shortID := job.ID; if len(shortID) > 8 { shortID = shortID[:8] }
IDColumn(id) ==
  IF Len(id) > IDColumnWidth THEN SubSeq(id, 1, IDColumnWidth) ELSE id

\* slices.Contains
slicesContains(list, v) == \E i \in DOMAIN list : list[i] = v

\* the "Current Values" lines of dns show: each value, and whether the
\* line carries the label " (unexpected)"
currentValueLines(ExpectedValues, CurrentValues) ==
  [i \in DOMAIN CurrentValues |->
     [val |-> CurrentValues[i],
      unexpected |-> slicesContains(ExpectedValues, CurrentValues[i])]]

(* ------------------------------- state -------------------------------- *)

VARIABLES
  shortID,    \* the <id> argument given to the resolver
  listResp,   \* what the backend answers to the list call: [items, err]
  pc,         \* "start" before the resolver ran, "done" after
  resolver,   \* which of the five resolvers ran
  res,        \* what it returned: [id, err]
  listCalls,  \* how many list requests it sent
  env,        \* the process environment: GROOVEKIT_TOKEN, GROOVEKIT_API_URL
  configFile, \* ~/.groovekit/config.json: its state and its JSON fields
  cmd,        \* the command the last invocation ran
  cfg,        \* the Config that invocation's Load returned
  loadErr,    \* the error that Load returned
  cmdErr,     \* the error the command's RunE returned
  requests,   \* the HTTP requests the invocation sent, in order
  fileRead,   \* the config file as the invocation's Load found it
  input,      \* the invocation's flags and the line typed at its prompt
  prompts,    \* the confirmation prompts the invocation showed
  loginRes,   \* what Client.Login returned to the invocation
  events,     \* what the invocation did on the terminal and the network, in order
  session,    \* the last auth login or auth logout that reported success
  fmtFn,      \* the formatter that ran
  fmtIn,      \* the number it was given
  fmtOut,     \* what it returned
  httpResp,   \* what the network and the backend answer to a request
  httpOut,    \* what doRequest returned for it
  outIn,      \* what an output helper is given
  outPc,      \* "start" before the helper ran, "done" after
  outRes      \* what the helper produced

resolveVars == <<shortID, listResp, pc, resolver, res, listCalls>>

cliVars == <<env, configFile, cmd, cfg, loadErr, cmdErr, requests,
             fileRead, input, prompts, loginRes, events, session>>

fmtVars == <<fmtFn, fmtIn, fmtOut>>

httpVars == <<httpResp, httpOut>>

outVars == <<outIn, outPc, outRes>>

vars == <<shortID, listResp, pc, resolver, res, listCalls,
          env, configFile, cmd, cfg, loadErr, cmdErr, requests,
          fileRead, input, prompts, loginRes, events, session,
          fmtFn, fmtIn, fmtOut, httpResp, httpOut,
          outIn, outPc, outRes>>

ListResponses ==
  {[items |-> l, err |-> Nil] : l \in Listings} \cup {[items |-> <<>>, err |-> NetErr]}

Environments ==
  [GROOVEKIT_TOKEN : {"", "env-token"}, GROOVEKIT_API_URL : {"", "http://env-url:8080"}]

ConfigFiles ==
  {[state |-> st, api_base_url |-> "", access_token |-> "", email |-> ""] :
     st \in {"absent", "unreadable", "corrupt"}}
    \cup [state : {"ok"}, api_base_url : {"", "http://file-url:3000"},
          access_token : {"", "file-token"}, email : {"", "user@example.com"}]

\* Load was not called: no file was read
NotRead == [state |-> "not read", api_base_url |-> "", access_token |-> "", email |-> ""]

\* no field flag was set
NoFlags == [f \in {} |-> <<>>]

\* no flag given, nothing typed
NoInput == [force |-> FALSE, line |-> <<>>, json |-> FALSE, changed |-> NoFlags]

\* neither auth login nor auth logout has reported success
NoSession == [kind |-> "none", token |-> ""]

\* no command has run
IdleCli ==
  /\ cmd = "none"
  /\ cfg = NoConfig
  /\ loadErr = Nil
  /\ cmdErr = Nil
  /\ requests = <<>>
  /\ fileRead = NotRead
  /\ input = NoInput
  /\ prompts = <<>>
  /\ loginRes = NoLogin
  /\ events = <<>>
  /\ session = NoSession

\* no formatter has run
IdleFmt ==
  /\ fmtFn = "none"
  /\ fmtIn = 0
  /\ fmtOut = Printed(0, NoDecimal, "")

\* doRequest has not returned
NoReturn == [reqs |-> <<>>, err |-> Nil, items |-> <<>>]

\* no request was made on its own
IdleHttp ==
  /\ httpResp = [transport |-> Nil, status |-> 200, body |-> <<>>, decode |-> Nil,
                 items |-> <<>>, json |-> NotJSON]
  /\ httpOut = NoReturn

\* no output helper is run
NoOutput == [panic |-> FALSE, out |-> <<>>]

IdleOut ==
  /\ outIn = [helper |-> "none"]
  /\ outPc = "start"
  /\ outRes = NoOutput

\* no resolver has run
IdleResolve ==
  /\ pc = "start"
  /\ resolver = "none"
  /\ res = [id |-> <<>>, err |-> Nil]
  /\ listCalls = 0

(* ---------------- the resolvers on their own: SpecResolve ------------- *)

InitResolve ==
  /\ shortID \in ShortIDs
  /\ listResp \in ListResponses
  /\ IdleResolve
  /\ env = [GROOVEKIT_TOKEN |-> "", GROOVEKIT_API_URL |-> ""]
  /\ configFile = [state |-> "absent", api_base_url |-> "", access_token |-> "",
                   email |-> ""]
  /\ IdleCli
  /\ IdleFmt
  /\ IdleHttp
  /\ IdleOut

Ran(name, r) ==
  /\ pc = "start"
  /\ pc' = "done"
  /\ resolver' = name
  /\ res' = [id |-> r.id, err |-> r.err]
  /\ listCalls' = listCalls + r.calls
  /\ UNCHANGED <<shortID, listResp>>
  /\ UNCHANGED cliVars
  /\ UNCHANGED fmtVars
  /\ UNCHANGED httpVars
  /\ UNCHANGED outVars

ResolveJob == Ran("job", resolveJobID(shortID, listResp))

ResolveMonitor == Ran("monitor", resolveMonitorID(shortID, listResp))

ResolveCert == Ran("cert", resolveCertID(shortID, listResp))

ResolveDnsMonitor == Ran("dns", resolveDnsMonitorID(shortID, listResp))

ResolveDomain == Ran("domain", resolveDomainID(shortID, listResp))

NextResolve ==
  \/ ResolveJob
  \/ ResolveMonitor
  \/ ResolveCert
  \/ ResolveDnsMonitor
  \/ ResolveDomain

SpecResolve == InitResolve /\ [][NextResolve]_vars

(* ------------------- command invocations: SpecCli --------------------- *)

\* the <id> arguments and the backend's answers tried on the commands
CliShortIDs == {<<>>, <<"a">>, <<"a", "A">>, <<"b">>, Rep("a", MinFullIDLength)}

CliListings == {<<>>, <<<<"a", "A">>>>, <<<<"a", "A">>, <<"a", "a">>>>}

\* a JSON error body {"error":"e"} as the backend sends it
ErrorBody(e) == <<"{", "\"">> \o ErrorKey \o <<"\"", ":", "\"">> \o e \o <<"\"", "}">>

Answer(transport, status, items) ==
  [transport |-> transport, status |-> status,
   body |-> IF status >= 300 THEN ErrorBody(<<"n", "o">>) ELSE <<>>,
   decode |-> Nil, items |-> items]

ListAnswers ==
  {Answer(Nil, 200, l) : l \in CliListings}
    \cup {Answer(NetErr, 0, <<>>), Answer(Nil, 500, <<>>),
          [Answer(Nil, 200, <<>>) EXCEPT !.decode = JSONErr]}

ActionAnswers ==
  {Answer(Nil, 200, <<>>), Answer(NetErr, 0, <<>>), Answer(Nil, 404, <<>>)}

LoginAnswers ==
  {[transport |-> t, status |-> st, body |-> b, decode |-> d, access_token |-> tok] :
     t \in {Nil}, st \in {200, 201, 401, 500}, b \in {<<>>}, d \in {Nil},
     tok \in {"new-token"}}
    \cup {[transport |-> NetErr, status |-> 0, body |-> <<>>, decode |-> Nil,
           access_token |-> ""],
          [transport |-> Nil, status |-> 201, body |-> <<>>, decode |-> JSONErr,
           access_token |-> ""],
          [transport |-> Nil, status |-> 201, body |-> <<>>, decode |-> Nil,
           access_token |-> ""]}

\* the values given to the field flags of jobs update; --grace-period 0 and
\* --webhook-secret "" set a flag to its zero value
FlagValues ==
  ("name" :> "backup") @@ ("interval" :> 5) @@ ("grace-period" :> 0)
    @@ ("status" :> "paused") @@ ("webhook-url" :> "http://hook")
    @@ ("webhook-secret" :> "")

\* the flags set on one command line: none, one, two, all six
ChangedFlags ==
  {[f \in S |-> FlagValues[f]] :
     S \in {{}} \cup {{f} : f \in DOMAIN FlagValues}
             \cup {{"name", "interval"}, DOMAIN FlagValues}}

\* the lines typed at the confirmation prompt
TypedLines ==
  {<<>>, <<"y">>, <<"Y">>, <<"n">>, <<"y", "e", "s">>, <<" ", "y">>, <<"y", " ", "n">>}

InitCli ==
  /\ env \in Environments
  /\ configFile \in ConfigFiles
  /\ IdleCli
  /\ shortID = <<>>
  /\ listResp = [items |-> <<>>, err |-> Nil]
  /\ IdleResolve
  /\ IdleFmt
  /\ IdleHttp
  /\ IdleOut

\* one invocation ran command name: load is what its Load returned (read
\* tells whether it called Load), err what it returned, reqs what it sent,
\* file what it left on disk
Invocation(name, arg, read, load, err, reqs, file, in, shown, login, ev) ==
  /\ cmd = "none"
  /\ cmd' = name
  /\ shortID' = arg
  /\ cfg' = load.cfg
  /\ loadErr' = load.err
  /\ cmdErr' = err
  /\ requests' = reqs
  /\ fileRead' = (IF read THEN configFile ELSE NotRead)
  /\ configFile' = file
  /\ input' = in
  /\ prompts' = shown
  /\ loginRes' = login
  /\ events' = ev
  /\ session' = (IF name = "auth login" /\ err = Nil
                 THEN [kind |-> "login", token |-> login.token]
                 ELSE IF name = "auth logout" /\ err = Nil
                 THEN [kind |-> "logout", token |-> ""]
                 ELSE session)
  /\ UNCHANGED <<env, listResp, pc, resolver, res, listCalls>>
  /\ UNCHANGED fmtVars
  /\ UNCHANGED httpVars
  /\ UNCHANGED outVars

\* one invocation of a command that starts with getAuthenticatedClient and
\* neither prompts nor touches the config file
Invoked(name, arg, err, reqs, in, ev) ==
  Invocation(name, arg, TRUE, Load(configFile, env), err, reqs, configFile,
             in, <<>>, NoLogin, ev)

\* groovekit jobs list [--json]
JobsList ==
  \E jsonOutput \in BOOLEAN, ans \in ListAnswers :
    LET r == jobsListCmd(configFile, env, jsonOutput, ans) IN
    Invoked("jobs list", <<>>, r.err, r.reqs, [NoInput EXCEPT !.json = jsonOutput],
            r.events)

\* groovekit jobs update <id> [--name ...] [--interval ...] ...
JobsUpdate ==
  \E id \in CliShortIDs, changed \in ChangedFlags, listAns \in ListAnswers,
     putAns \in ActionAnswers :
    LET r == jobsUpdateCmd(configFile, env, id, changed, listAns, putAns) IN
    Invoked("jobs update", id, r.err, r.reqs, [NoInput EXCEPT !.changed = changed],
            r.events)

\* groovekit jobs pause <id>
JobsPause ==
  \E id \in CliShortIDs, listAns \in ListAnswers, putAns \in ActionAnswers :
    LET r == jobsPauseCmd(configFile, env, id, listAns, putAns) IN
    Invoked("jobs pause", id, r.err, r.reqs, NoInput, r.events)

\* groovekit jobs resume <id>
JobsResume ==
  \E id \in CliShortIDs, listAns \in ListAnswers, putAns \in ActionAnswers :
    LET r == jobsResumeCmd(configFile, env, id, listAns, putAns) IN
    Invoked("jobs resume", id, r.err, r.reqs, NoInput, r.events)

\* groovekit monitors pause <id>
MonitorsPause ==
  \E id \in CliShortIDs, listAns \in ListAnswers, putAns \in ActionAnswers :
    LET r == monitorsPauseCmd(configFile, env, id, listAns, putAns) IN
    Invoked("monitors pause", id, r.err, r.reqs, NoInput, r.events)

\* groovekit monitors resume <id>
MonitorsResume ==
  \E id \in CliShortIDs, listAns \in ListAnswers, putAns \in ActionAnswers :
    LET r == monitorsResumeCmd(configFile, env, id, listAns, putAns) IN
    Invoked("monitors resume", id, r.err, r.reqs, NoInput, r.events)

\* groovekit jobs delete <id> [--force]
JobsDelete ==
  \E id \in CliShortIDs, force \in BOOLEAN, line \in TypedLines,
     listAns \in ListAnswers, delAns \in ActionAnswers :
    LET r == jobsDeleteCmd(configFile, env, id, force, line, listAns, delAns) IN
    Invocation("jobs delete", id, TRUE, Load(configFile, env), r.err, r.reqs,
               configFile, [NoInput EXCEPT !.force = force, !.line = line], r.prompts,
               NoLogin, r.events)

\* groovekit dns delete <id> [--force]
DnsDelete ==
  \E id \in CliShortIDs, force \in BOOLEAN, line \in TypedLines,
     listAns \in ListAnswers, delAns \in ActionAnswers :
    LET r == dnsDeleteCmd(configFile, env, id, force, line, listAns, delAns) IN
    Invocation("dns delete", id, TRUE, Load(configFile, env), r.err, r.reqs,
               configFile, [NoInput EXCEPT !.force = force, !.line = line], r.prompts,
               NoLogin, r.events)

\* groovekit account show [--json]
AccountShow ==
  \E jsonOutput \in BOOLEAN, ans \in ActionAnswers :
    LET r == accountShowCmd(configFile, env, jsonOutput, ans) IN
    Invoked("account show", <<>>, r.err, r.reqs, [NoInput EXCEPT !.json = jsonOutput],
            r.events)

\* groovekit version
Version ==
  Invocation("version", <<>>, FALSE, NotLoaded, Nil, <<>>, configFile,
             NoInput, <<>>, NoLogin, <<"groovekit version">>)

\* groovekit auth login
AuthLogin ==
  \E email \in {"", "new@example.com"}, passwordErr \in {Nil, ReadErr},
     ans \in LoginAnswers, writable \in BOOLEAN :
    LET r == loginCmd(configFile, env, email, passwordErr, ans, writable) IN
    Invocation("auth login", <<>>, passwordErr = Nil, r.load, r.err, r.reqs, r.file,
               NoInput, <<>>, r.login, r.events)

\* groovekit auth logout
AuthLogout ==
  \E removable \in BOOLEAN :
    LET r == logoutCmd(configFile, removable) IN
    Invocation("auth logout", <<>>, FALSE, NotLoaded, r.err, <<>>, r.file,
               NoInput, <<>>, NoLogin, r.events)

\* the process ends: what the invocation held is gone, the environment
\* and the config file stay for the next one
Exit ==
  /\ cmd # "none"
  /\ cmd' = "none"
  /\ cfg' = NoConfig
  /\ loadErr' = Nil
  /\ cmdErr' = Nil
  /\ requests' = <<>>
  /\ fileRead' = NotRead
  /\ input' = NoInput
  /\ prompts' = <<>>
  /\ loginRes' = NoLogin
  /\ events' = <<>>
  /\ shortID' = <<>>
  /\ UNCHANGED <<env, configFile, session, listResp, pc, resolver, res, listCalls>>
  /\ UNCHANGED fmtVars
  /\ UNCHANGED httpVars
  /\ UNCHANGED outVars

NextCli ==
  \/ Exit
  \/ JobsList
  \/ JobsUpdate
  \/ JobsPause
  \/ JobsResume
  \/ MonitorsPause
  \/ MonitorsResume
  \/ JobsDelete
  \/ DnsDelete
  \/ AccountShow
  \/ Version
  \/ AuthLogin
  \/ AuthLogout

SpecCli == InitCli /\ [][NextCli]_vars

(* ------------------ the formatters on their own: SpecFormat ----------- *)

InitFormat ==
  /\ fmtIn \in 0..MaxInput
  /\ fmtFn = "none"
  /\ fmtOut = Printed(0, NoDecimal, "")
  /\ shortID = <<>>
  /\ listResp = [items |-> <<>>, err |-> Nil]
  /\ IdleResolve
  /\ env = [GROOVEKIT_TOKEN |-> "", GROOVEKIT_API_URL |-> ""]
  /\ configFile = [state |-> "absent", api_base_url |-> "", access_token |-> "",
                   email |-> ""]
  /\ IdleCli
  /\ IdleHttp
  /\ IdleOut

Formatted(name, out) ==
  /\ fmtFn = "none"
  /\ fmtFn' = name
  /\ fmtOut' = out
  /\ UNCHANGED fmtIn
  /\ UNCHANGED resolveVars
  /\ UNCHANGED cliVars
  /\ UNCHANGED httpVars
  /\ UNCHANGED outVars

\* formatIncidentDuration(fmtIn / 2)
FormatIncident ==
  \E up \in BOOLEAN : Formatted("formatIncidentDuration", formatIncidentDuration(fmtIn, up))

\* output.FormatDuration(fmtIn)
FormatInterval == Formatted("FormatDuration", FormatDuration(fmtIn))

NextFormat ==
  \/ FormatIncident
  \/ FormatInterval

SpecFormat == InitFormat /\ [][NextFormat]_vars

(* --------------------- doRequest on its own: SpecHttp ----------------- *)

\* ---- the bodies the backend answers with; json is what the backend
\* encoded (NotJSON when the body is no JSON object)

Html == <<"<", "h", "t", "m", "l", ">">>

Quoted(str) == <<"\"">> \o str \o <<"\"">>

\* {"error":"e","message":"m"}
ErrorMessageBody(e, m) ==
  <<"{">> \o Quoted(ErrorKey) \o <<":">> \o Quoted(e) \o <<",">>
          \o Quoted(MessageKey) \o <<":">> \o Quoted(m) \o <<"}">>

\* {"message":"m","error":"e"}
MessageErrorBody(m, e) ==
  <<"{">> \o Quoted(MessageKey) \o <<":">> \o Quoted(m) \o <<",">>
          \o Quoted(ErrorKey) \o <<":">> \o Quoted(e) \o <<"}">>

\* {"message":"m"}
MessageBody(m) == <<"{">> \o Quoted(MessageKey) \o <<":">> \o Quoted(m) \o <<"}">>

Text(str) == [text |-> str, json |-> NotJSON]

JSON(str, e, m) == [text |-> str, json |-> [ok |-> TRUE, Error |-> e, Message |-> m]]

\* the field values tried: a word, a long text, a text quoting markup
FieldValues ==
  {<<"n", "o">>, Rep("e", RawBodyLimit), <<"a", " ">> \o Doctype}

Bodies ==
  {Text(<<>>), Text(<<"n", "o">>),
   Text(Rep("x", RawBodyLimit - 1)), Text(Rep("x", RawBodyLimit)),
   Text(Rep("x", RawBodyLimit + 1)),
   Text(Html), Text(Doctype \o <<" ">> \o Html),
   Text(Html \o Rep("x", RawBodyLimit)),
   Text(<<" ">> \o Html), Text(<<" ", " ">> \o Html \o Rep("x", RawBodyLimit)),
   Text(<<" ">> \o Doctype \o <<" ">> \o Html),
   Text(<<"s", "e", "e", " ">> \o Doctype),
   Text(<<"{">> \o Quoted(ErrorKey) \o <<":">> \o Quoted(<<"n", "o">>)),
   JSON(<<"{", "}">>, <<>>, <<>>),
   JSON(<<"{", "}">> \o Rep(" ", RawBodyLimit), <<>>, <<>>),
   JSON(<<"{">> \o Quoted(<<"i", "d">>) \o <<":">> \o Quoted(<<"7">>) \o <<"}">>,
        <<>>, <<>>)}
    \cup {JSON(ErrorBody(e), e, <<>>) : e \in FieldValues}
    \cup {JSON(<<" ">> \o ErrorBody(e) \o <<" ">>, e, <<>>) : e \in FieldValues}
    \cup {JSON(MessageBody(m), <<>>, m) : m \in FieldValues}
    \cup {JSON(ErrorMessageBody(e, m), e, m) :
            e \in FieldValues \cup {<<>>}, m \in {<<"m">>, <<>>}}
    \cup {JSON(MessageErrorBody(m, e), e, m) :
            e \in {<<"n", "o">>, <<>>}, m \in {<<"m">>}}

Statuses == {200, 204, 299, 300, 401, 404, 500, 502}

InitHttp ==
  /\ httpResp \in
       {[transport |-> Nil, status |-> st, body |-> b.text, decode |-> d,
         items |-> <<<<"a", "A">>>>, json |-> b.json] :
          st \in Statuses, b \in Bodies, d \in {Nil, JSONErr}}
         \cup {[transport |-> NetErr, status |-> 0, body |-> <<>>, decode |-> Nil,
                items |-> <<>>, json |-> NotJSON]}
  /\ httpOut = NoReturn
  /\ fmtFn = "none"
  /\ fmtIn = 0
  /\ fmtOut = Printed(0, NoDecimal, "")
  /\ shortID = <<>>
  /\ listResp = [items |-> <<>>, err |-> Nil]
  /\ IdleResolve
  /\ env = [GROOVEKIT_TOKEN |-> "", GROOVEKIT_API_URL |-> ""]
  /\ configFile = [state |-> "absent", api_base_url |-> "", access_token |-> "",
                   email |-> ""]
  /\ IdleCli
  /\ IdleOut

Returned(out) ==
  /\ httpOut = NoReturn
  /\ httpOut' = out
  /\ UNCHANGED httpResp
  /\ UNCHANGED resolveVars
  /\ UNCHANGED cliVars
  /\ UNCHANGED fmtVars
  /\ UNCHANGED outVars

\* c.Get(path, &result)
Get ==
  Returned(doRequest([BaseURL |-> DefaultAPIBaseURL, Token |-> "file-token"],
                     "GET", <<"/jobs">>, NoBody, TRUE, httpResp))

\* c.Delete(path)
DeletePath ==
  Returned(doRequest([BaseURL |-> DefaultAPIBaseURL, Token |-> "file-token"],
                     "DELETE", <<"/jobs/", <<"a", "A">>>>, NoBody, FALSE, httpResp))

NextHttp ==
  \/ Get
  \/ DeletePath

SpecHttp == InitHttp /\ [][NextHttp]_vars

(* ------------------- output helpers on their own: SpecOutput ---------- *)

\* the IDs of a listing whose ID column is examined: shorter than the
\* column, as wide, and longer with and without a common first column
ColumnIDs ==
  {<<"a", "A">>, Rep("a", IDColumnWidth - 1), Rep("a", IDColumnWidth),
   Rep("a", IDColumnWidth + 1), Rep("a", IDColumnWidth) \o <<"A">>,
   Rep("A", IDColumnWidth + 1)}

ColumnListings ==
  {l \in UNION {[1..k -> ColumnIDs] : k \in 1..MaxItems} :
     \A i, j \in DOMAIN l : l[i] = l[j] => i = j}

DnsValues == {"192.0.2.1", "192.0.2.2", "192.0.2.3"}

ValueLists == UNION {[1..k -> DnsValues] : k \in 0..MaxValues}

OutputInputs ==
  {[helper |-> "truncate", s |-> s, maxLen |-> n] :
     s \in StrUpTo(MaxStr), n \in 0..MaxWidth}
    \cup {[helper |-> "list", items |-> l, row |-> i] :
            l \in ColumnListings, i \in 1..MaxItems}
    \cup {[helper |-> "show", ExpectedValues |-> e, CurrentValues |-> c] :
            e \in ValueLists, c \in ValueLists}

InitOutput ==
  /\ outIn \in {in \in OutputInputs : in.helper = "list" => in.row <= Len(in.items)}
  /\ outPc = "start"
  /\ outRes = NoOutput
  /\ httpResp = [transport |-> Nil, status |-> 200, body |-> <<>>, decode |-> Nil,
                 items |-> <<>>, json |-> NotJSON]
  /\ httpOut = NoReturn
  /\ fmtFn = "none"
  /\ fmtIn = 0
  /\ fmtOut = Printed(0, NoDecimal, "")
  /\ shortID = <<>>
  /\ listResp = [items |-> <<>>, err |-> Nil]
  /\ IdleResolve
  /\ env = [GROOVEKIT_TOKEN |-> "", GROOVEKIT_API_URL |-> ""]
  /\ configFile = [state |-> "absent", api_base_url |-> "", access_token |-> "",
                   email |-> ""]
  /\ IdleCli

Output(helper, r) ==
  /\ outPc = "start"
  /\ outIn.helper = helper
  /\ outPc' = "done"
  /\ outRes' = r
  /\ UNCHANGED outIn
  /\ UNCHANGED resolveVars
  /\ UNCHANGED cliVars
  /\ UNCHANGED fmtVars
  /\ UNCHANGED httpVars

\* truncate(s, maxLen)
Truncate ==
  /\ outIn.helper = "truncate"
  /\ Output("truncate", truncate(outIn.s, outIn.maxLen))

\* jobs list prints the ID column of a row; the printed value is then given
\* back as <id> and resolved against the same listing
ListThenResolve ==
  /\ outIn.helper = "list"
  /\ Output("list",
            [printed |-> IDColumn(outIn.items[outIn.row]),
             resolved |-> resolveJobID(IDColumn(outIn.items[outIn.row]),
                                       [items |-> outIn.items, err |-> Nil])])

\* dns show prints the current values
ShowCurrentValues ==
  /\ outIn.helper = "show"
  /\ Output("show", currentValueLines(outIn.ExpectedValues, outIn.CurrentValues))

NextOutput ==
  \/ Truncate
  \/ ListThenResolve
  \/ ShowCurrentValues

SpecOutput == InitOutput /\ [][NextOutput]_vars

(* ----------------------- resolver: properties ------------------------- *)

\* p is a prefix of id: id is p followed by the rest of id
StartsWith(id, p) ==
  Len(p) <= Len(id) /\ id = p \o SubSeq(id, Len(p) + 1, Len(id))

\* p and the first len(p) characters of id are the same characters
SameLeadingChars(id, p) ==
  Len(id) >= Len(p) /\ \A i \in 1..Len(p) : id[i] = p[i]

Lower(s) == [i \in DOMAIN s |-> IF s[i] = "A" THEN "a" ELSE s[i]]

\* the positions of the listing whose ID starts with the short ID
MatchIdx == {i \in DOMAIN listResp.items : StartsWith(listResp.items[i], shortID)}

SlowPath == Len(shortID) < MinFullIDLength

Listed == pc = "done" /\ SlowPath /\ listResp.err = Nil

NotFoundFormats ==
  {"no job found with ID prefix '%s'", "no monitor found with ID prefix '%s'",
   "no cert found with ID prefix '%s'", "no DNS monitor found with ID prefix '%s'",
   "no domain monitor found with ID prefix '%s'"}

AmbiguousFormats ==
  {"ambiguous ID prefix '%s' matches multiple jobs",
   "ambiguous ID prefix '%s' matches multiple monitors",
   "ambiguous ID prefix '%s' matches multiple certs",
   "ambiguous ID prefix '%s' matches multiple DNS monitors",
   "ambiguous ID prefix '%s' matches multiple domain monitors"}

ListFailedFormats ==
  {"failed to list jobs: %w", "failed to list monitors: %w",
   "failed to list SSL monitors: %w", "failed to list DNS monitors: %w",
   "failed to list domain monitors: %w"}

ErrKind(err) ==
  IF err = Nil THEN "ok"
  ELSE IF err.format \in NotFoundFormats THEN "not_found"
  ELSE IF err.format \in AmbiguousFormats THEN "ambiguous"
  ELSE IF err.format \in ListFailedFormats THEN "list_failed"
  ELSE "other"

\* C1: when two or more listed IDs start with a short ID below the full-ID
\* length, the resolver returns no ID and an ambiguous-prefix error naming
\* the short ID, never one of the matches.
C1_AmbiguousIsAnError ==
  (Listed /\ Cardinality(MatchIdx) >= 2)
    => /\ res.id = <<>>
       /\ ErrKind(res.err) = "ambiguous"
       /\ res.err.arg = shortID

\* three matches, the listing as long as it gets, and the ambiguous error
C1_Witness ==
  /\ Listed
  /\ Cardinality(MatchIdx) > 2
  /\ ErrKind(res.err) = "ambiguous"

\* C2: when exactly one listed ID starts with the short ID, the resolver
\* returns that ID and no error, at whatever position the item is listed.
C2_UniqueMatchIsReturned ==
  (Listed /\ Cardinality(MatchIdx) = 1)
    => /\ res.err = Nil
       /\ \A i \in MatchIdx : res.id = listResp.items[i]

\* the only match is the last of three items, and it is what was returned
C2_Witness ==
  /\ Listed
  /\ Len(listResp.items) = 3
  /\ MatchIdx = {3}
  /\ res.id = listResp.items[3]
  /\ res.id # shortID

\* C3: when no listed ID starts with the short ID (the empty listing
\* included), the resolver returns no ID and a not-found error naming the
\* short ID.
C3_NoMatchIsNotFound ==
  (Listed /\ MatchIdx = {})
    => /\ res.id = <<>>
       /\ ErrKind(res.err) = "not_found"
       /\ res.err.arg = shortID

\* not found against an empty listing
C3_Witness ==
  /\ Listed
  /\ listResp.items = <<>>
  /\ Len(shortID) > 0
  /\ ErrKind(res.err) = "not_found"

\* C4: a short ID of 32 characters or more is returned unchanged, with no
\* error and without one list call, whether or not a resource has that ID.
C4_FullIDFastPath ==
  (pc = "done" /\ Len(shortID) >= MinFullIDLength)
    => /\ res.id = shortID
       /\ res.err = Nil
       /\ listCalls = 0

\* a 32-character ID that no listed resource has, returned with no call
C4_Witness ==
  /\ pc = "done"
  /\ Len(shortID) = MinFullIDLength
  /\ listResp.err = Nil
  /\ \A i \in DOMAIN listResp.items : listResp.items[i] # shortID
  /\ res.id = shortID
  /\ listCalls = 0

\* C5: below the full-ID length the resolver calls list exactly once; when
\* that call fails it returns an error and no ID, still after one call.
C5_OneListCall ==
  (pc = "done" /\ SlowPath)
    => /\ listCalls = 1
       /\ listResp.err # Nil => (res.err # Nil /\ res.id = <<>>)

\* the list call failed, and the resolver stopped with the error
C5_Witness ==
  /\ pc = "done"
  /\ SlowPath
  /\ listResp.err # Nil
  /\ ErrKind(res.err) = "list_failed"
  /\ listCalls = 1

\* C6: the resolver matches exactly and case-sensitively: an ID it returns
\* has the short ID's characters as its first characters, and when no
\* listed ID does (an ID that differs only in case or is shorter than the
\* short ID is not one) the answer is not found.
C6_ExactCaseSensitivePrefix ==
  Listed
    => /\ res.err = Nil => SameLeadingChars(res.id, shortID)
       /\ (\A i \in DOMAIN listResp.items :
             ~SameLeadingChars(listResp.items[i], shortID))
            => ErrKind(res.err) = "not_found"

\* "AA" against a listing with an ID equal to it but for case and an ID
\* that is a proper prefix of it: not found
C6_Witness ==
  /\ Listed
  /\ \E i \in DOMAIN listResp.items :
       /\ listResp.items[i] # shortID
       /\ Lower(listResp.items[i]) = Lower(shortID)
  /\ \E i \in DOMAIN listResp.items :
       /\ Len(listResp.items[i]) < Len(shortID)
       /\ StartsWith(shortID, listResp.items[i])
  /\ ErrKind(res.err) = "not_found"

\* what a resolver's answer comes to, the resource noun left out
Outcome(r) == [id |-> r.id, kind |-> ErrKind(r.err), arg |-> r.err.arg]

\* C7: on the same short ID and the same list answer the five resolvers
\* return the same ID or the same kind of error (not found, ambiguous,
\* list failure) after the same number of list calls.
C7_ResolversAgree ==
  pc = "done"
    => \A r \in {resolveJobID(shortID, listResp), resolveMonitorID(shortID, listResp),
                 resolveCertID(shortID, listResp), resolveDnsMonitorID(shortID, listResp),
                 resolveDomainID(shortID, listResp)} :
         /\ Outcome(r) = Outcome(res)
         /\ ErrKind(r.err) # "other"
         /\ r.calls = listCalls

\* the DNS resolver answered ambiguous, as the others do on this input
C7_Witness ==
  /\ pc = "done"
  /\ resolver = "dns"
  /\ ErrKind(res.err) = "ambiguous"
  /\ Cardinality(MatchIdx) = 2

(* ------------------------ commands: properties ------------------------ *)

\* the credential a request carries in its Authorization header
Bearer(req) == IF req.auth = <<>> THEN "" ELSE req.auth[2]

\* the last invocation was of a command that starts with
\* getAuthenticatedClient
Authenticated ==
  cmd \in {"jobs list", "jobs update", "jobs pause", "jobs resume", "monitors pause",
           "monitors resume", "jobs delete", "dns delete", "account show"}

\* the last invocation called Load
Loaded == fileRead # NotRead

\* C8: when GROOVEKIT_TOKEN is set and non-empty, the credential that Load
\* resolves, and that every request of the command carries as its Bearer
\* token, is the environment's value, with the config file absent or
\* holding another access_token.
C8_EnvTokenIsTheCredential ==
  (Authenticated /\ env.GROOVEKIT_TOKEN # "" /\ loadErr = Nil)
    => /\ cfg.AccessToken = env.GROOVEKIT_TOKEN
       /\ \A i \in DOMAIN requests : Bearer(requests[i]) = env.GROOVEKIT_TOKEN

\* C9: an authenticated command sends a request only after a Load without
\* error that resolved a non-empty credential; with no credential, or with
\* a config file that is unreadable or not JSON, it returns an error and
\* has sent nothing.
C9_NoRequestWithoutCredential ==
  Authenticated
    => /\ requests # <<>> => (loadErr = Nil /\ cfg.AccessToken # "")
       /\ (loadErr # Nil \/ cfg.AccessToken = "")
            => (cmdErr # Nil /\ requests = <<>>)
       /\ fileRead.state \in {"unreadable", "corrupt"} => loadErr # Nil

\* jobs pause against a config file that is not JSON: an error, no request
C9_Witness ==
  /\ cmd = "jobs pause"
  /\ fileRead.state = "corrupt"
  /\ env.GROOVEKIT_API_URL # ""
  /\ cmdErr.format = "failed to load config: %w"
  /\ requests = <<>>

\* C10: when GROOVEKIT_API_URL is set and non-empty, Load returns it as the
\* API base URL, with the config file absent, holding another api_base_url
\* or holding none, and whatever GROOVEKIT_TOKEN is; when it is unset the
\* file's api_base_url is returned, and the built-in default if the file
\* has none. The requests of the command go to that base URL.
C10_APIBaseURLPrecedence ==
  (Loaded /\ loadErr = Nil)
    => /\ cfg.APIBaseURL =
            (IF env.GROOVEKIT_API_URL # "" THEN env.GROOVEKIT_API_URL
             ELSE IF fileRead.state = "ok" /\ fileRead.api_base_url # ""
             THEN fileRead.api_base_url
             ELSE "https://api.groovekit.com")
       /\ \A i \in DOMAIN requests : requests[i].base = cfg.APIBaseURL

\* both variables set, a file with another api_base_url: the requests go
\* to the environment's URL
C10_Witness ==
  /\ Authenticated
  /\ env.GROOVEKIT_API_URL # ""
  /\ env.GROOVEKIT_TOKEN # ""
  /\ fileRead.state = "ok"
  /\ fileRead.api_base_url \notin {"", env.GROOVEKIT_API_URL}
  /\ cfg.APIBaseURL = env.GROOVEKIT_API_URL
  /\ requests # <<>>
  /\ requests[1].base = env.GROOVEKIT_API_URL

(* ----------------------- formatters: properties ----------------------- *)

\* formatIncidentDuration ran on fmtIn / 2 seconds
Incident == fmtFn = "formatIncidentDuration"

\* ... on a whole number of seconds
WholeSeconds == fmtIn % 2 = 0

Seconds == fmtIn \div 2

\* C18: formatIncidentDuration picks the unit by half-open thresholds on
\* the seconds: below 60 the 's' form, from 60 to below 3600 the 'm' form,
\* from 3600 to below 86400 the 'h' form with one decimal, from 86400 the
\* 'd' form with one decimal; 30 is "30s", 60 "1m", 120 "2m", 3600 "1.0h",
\* 7200 "2.0h", 86400 "1.0d", 172800 "2.0d".
C18_UnitByHalfOpenThresholds ==
  Incident
    => /\ fmtIn < 2 * 60 => (fmtOut.unit = "s" /\ fmtOut.tenths = NoDecimal)
       /\ (2 * 60 <= fmtIn /\ fmtIn < 2 * 3600)
            => (fmtOut.unit = "m" /\ fmtOut.tenths = NoDecimal)
       /\ (2 * 3600 <= fmtIn /\ fmtIn < 2 * 86400)
            => (fmtOut.unit = "h" /\ fmtOut.tenths \in 0..9)
       /\ 2 * 86400 <= fmtIn => (fmtOut.unit = "d" /\ fmtOut.tenths \in 0..9)
       /\ fmtIn = 2 * 30 => fmtOut = [whole |-> 30, tenths |-> NoDecimal, unit |-> "s"]
       /\ fmtIn = 2 * 60 => fmtOut = [whole |-> 1, tenths |-> NoDecimal, unit |-> "m"]
       /\ fmtIn = 2 * 120 => fmtOut = [whole |-> 2, tenths |-> NoDecimal, unit |-> "m"]
       /\ fmtIn = 2 * 3600 => fmtOut = [whole |-> 1, tenths |-> 0, unit |-> "h"]
       /\ fmtIn = 2 * 7200 => fmtOut = [whole |-> 2, tenths |-> 0, unit |-> "h"]
       /\ fmtIn = 2 * 86400 => fmtOut = [whole |-> 1, tenths |-> 0, unit |-> "d"]
       /\ fmtIn = 2 * 172800 => fmtOut = [whole |-> 2, tenths |-> 0, unit |-> "d"]

\* exactly 86400 seconds printed as "1.0d"
C18_Witness ==
  /\ Incident
  /\ fmtIn = 2 * 86400
  /\ fmtOut = [whole |-> 1, tenths |-> 0, unit |-> "d"]

\* C19, as claimed: for whole seconds s from 60 to below 3600 the result is
\* s/60 truncated toward zero, followed by 'm'.
C19_MinutesTruncated ==
  (Incident /\ WholeSeconds /\ 60 <= Seconds /\ Seconds < 3600)
    => fmtOut = [whole |-> Seconds \div 60, tenths |-> NoDecimal, unit |-> "m"]

\* C19, amended: for whole seconds s from 60 to below 3600 the result is
\* s/60 rounded to the nearest integer, a half going to the even neighbour,
\* followed by 'm' (90 and 150 give "2m", 3599 gives "60m").
C19_MinutesRoundedToNearest ==
  (Incident /\ WholeSeconds /\ 60 <= Seconds /\ Seconds < 3600)
    => /\ fmtOut.unit = "m"
       /\ fmtOut.tenths = NoDecimal
       /\ 60 * fmtOut.whole - Seconds \in (0 - 30)..30
       /\ 60 * fmtOut.whole - Seconds \in {0 - 30, 30} => fmtOut.whole % 2 = 0

\* 3599 seconds printed as "60m"
C19_Witness ==
  /\ Incident
  /\ Seconds = 3599
  /\ WholeSeconds
  /\ fmtOut = [whole |-> 60, tenths |-> NoDecimal, unit |-> "m"]

\* C20: for n >= 0 minutes FormatDuration prints n and "minute(s)" below
\* 60, n div 60 and "hour(s)" from 60 to below 1440, n div 1440 and
\* "day(s)" from 1440, the noun singular exactly when the number is 1.
C20_FormatDuration ==
  fmtFn = "FormatDuration"
    => LET count == IF fmtIn < 60 THEN fmtIn
                    ELSE IF fmtIn < 1440 THEN fmtIn \div 60
                    ELSE fmtIn \div 1440
           noun == IF fmtIn < 60 THEN " minute"
                   ELSE IF fmtIn < 1440 THEN " hour"
                   ELSE " day"
           plural == IF fmtIn < 60 THEN " minutes"
                     ELSE IF fmtIn < 1440 THEN " hours"
                     ELSE " days"
       IN /\ fmtOut.whole = count
          /\ fmtOut.tenths = NoDecimal
          /\ fmtOut.unit = (IF count = 1 THEN noun ELSE plural)
          /\ fmtIn \in {60, 90} => fmtOut = [whole |-> 1, tenths |-> NoDecimal, unit |-> " hour"]
          /\ fmtIn = 1 => fmtOut = [whole |-> 1, tenths |-> NoDecimal, unit |-> " minute"]
          /\ fmtIn = 1440 => fmtOut = [whole |-> 1, tenths |-> NoDecimal, unit |-> " day"]

\* 90 minutes printed as "1 hour"
C20_Witness ==
  /\ fmtFn = "FormatDuration"
  /\ fmtIn = 90
  /\ fmtOut = [whole |-> 1, tenths |-> NoDecimal, unit |-> " hour"]

(* ---------------------- commands: more properties --------------------- *)

\* C11: Login returns the response's access_token and no error only when
\* the status is exactly 201; for any other status it returns an error
\* "login failed" and an empty token, for a transport failure an error
\* "login request failed" and an empty token.
C11_LoginOnlyOn201 ==
  (cmd = "auth login" /\ loginRes.reqs # <<>>)
    => LET ans == loginRes.reqs[1].resp IN
       /\ loginRes.err = Nil
            => (ans.transport = Nil /\ ans.status = 201
                /\ loginRes.token = ans.access_token)
       /\ (ans.transport = Nil /\ ans.status # 201)
            => (loginRes.err.format = "login failed: %s" /\ loginRes.token = "")
       /\ ans.transport # Nil
            => (loginRes.err.format = "login request failed: %w"
                /\ loginRes.err.arg = ans.transport /\ loginRes.token = "")

\* the backend answered the login with 200 and a token: a login failure
C11_Witness ==
  /\ cmd = "auth login"
  /\ loginRes.reqs # <<>>
  /\ loginRes.reqs[1].resp.status = 200
  /\ loginRes.reqs[1].resp.access_token # ""
  /\ loginRes.err.format = "login failed: %s"
  /\ loginRes.token = ""

\* the last invocation was of a delete command
Delete == cmd \in {"jobs delete", "dns delete"}

DeleteSent == \E i \in DOMAIN requests : requests[i].method = "DELETE"

\* w is the first word of line: what follows the leading spaces, up to the
\* next space or the end
FirstWordIs(line, w) ==
  \E n \in 0..Len(line) :
    /\ \A i \in 1..n : line[i] = " "
    /\ n + Len(w) <= Len(line)
    /\ \A i \in 1..Len(w) : line[n + i] = w[i] /\ w[i] # " "
    /\ n + Len(w) = Len(line) \/ line[n + Len(w) + 1] = " "

\* C12, as claimed: a delete command sends the DELETE request only if
\* --force was given or the answer typed at the prompt is exactly "y" or
\* "Y"; with --force no prompt is shown.
C12_DeleteOnlyOnExactAnswer ==
  Delete
    => /\ DeleteSent => (input.force \/ input.line \in {<<"y">>, <<"Y">>})
       /\ input.force => prompts = <<>>

\* C12, amended: a delete command sends the DELETE request only if --force
\* was given or the first word of the line typed at the prompt is exactly
\* "y" or "Y" (spaces before it and words after it are ignored); with
\* --force no prompt is shown; with any other first word, or an empty
\* line, no DELETE request is sent.
C12_DeleteOnlyOnFirstWord ==
  Delete
    => /\ DeleteSent
            => (input.force \/ FirstWordIs(input.line, <<"y">>)
                \/ FirstWordIs(input.line, <<"Y">>))
       /\ input.force => prompts = <<>>
       /\ (DeleteSent /\ ~input.force) => prompts # <<>>

\* "y n" typed at the prompt of a delete without --force: the DELETE is sent
C12_Witness ==
  /\ Delete
  /\ ~input.force
  /\ input.line = <<"y", " ", "n">>
  /\ prompts # <<>>
  /\ DeleteSent

\* the last invocation was of a command that takes an <id>
IdCommand ==
  cmd \in {"jobs update", "jobs pause", "jobs resume", "monitors pause",
           "monitors resume", "jobs delete", "dns delete"}

\* the action request of the command was sent, and it succeeded
ActionSent == \E i \in DOMAIN requests : requests[i].method \in {"PUT", "DELETE"}

ActionDone ==
  \E i \in DOMAIN requests :
    requests[i].method \in {"PUT", "DELETE"} /\ requests[i].err = Nil

\* the <id> is a full ID, or exactly one ID of the listing the backend
\* returned starts with it
ResolvedUniquely ==
  \/ Len(shortID) >= MinFullIDLength
  \/ /\ requests # <<>>
     /\ requests[1].method = "GET"
     /\ requests[1].err = Nil
     /\ Cardinality({i \in DOMAIN requests[1].resp.items :
                       StartsWith(requests[1].resp.items[i], shortID)}) = 1

\* C13, as claimed: a command that takes an <id> ends either with the
\* identifier resolved uniquely and the action request completed (success)
\* or with an error; none exits successfully without the action performed.
C13_SuccessMeansActionDone ==
  IdCommand
    => /\ cmdErr = Nil => (ResolvedUniquely /\ ActionDone)
       /\ cmdErr # Nil => ~ActionDone

\* C13, amended: a command that takes an <id> ends in exactly one of three
\* ways: the identifier resolved uniquely and the action request completed
\* (success); or the command returned one error and no action completed;
\* or, for a delete without --force whose prompt was not answered with "y"
\* or "Y", the identifier resolved uniquely, no action request was sent and
\* the command still exits successfully.
C13_SuccessOrErrorOrCancelled ==
  IdCommand
    => /\ cmdErr = Nil
            => /\ ResolvedUniquely
               /\ \/ ActionDone
                  \/ /\ Delete
                     /\ ~input.force
                     /\ prompts # <<>>
                     /\ ~FirstWordIs(input.line, <<"y">>)
                     /\ ~FirstWordIs(input.line, <<"Y">>)
                     /\ ~ActionSent
       /\ cmdErr # Nil => ~ActionDone

\* jobs delete without --force, the prompt answered with an empty line:
\* nothing deleted, success
C13_Witness ==
  /\ cmd = "jobs delete"
  /\ ~input.force
  /\ input.line = <<>>
  /\ prompts # <<>>
  /\ cmdErr = Nil
  /\ ~ActionSent
  /\ requests # <<>>

\* err is inner, or wraps it with %w
Wraps(err, inner) ==
  \/ err = inner
  \/ err.format \in ListFailedFormats
                      \cup {"failed to update job: %w", "failed to pause job: %w",
                            "failed to resume job: %w", "failed to pause monitor: %w",
                            "failed to resume monitor: %w", "failed to delete job: %w",
                            "failed to delete DNS monitor: %w",
                            "failed to get account: %w", "login failed: %w"}
       /\ err.arg = inner

\* C14: within one invocation each request is attempted at most once; after
\* a failed resolution or a failed backend call no further request is sent
\* and the command returns that error.
C14_NoRetry ==
  cmd # "none"
    => /\ \A i, j \in DOMAIN requests :
            (requests[i].method = requests[j].method
             /\ requests[i].path = requests[j].path) => i = j
       /\ \A i \in DOMAIN requests :
            requests[i].err # Nil
              => (i = Len(requests) /\ cmdErr # Nil /\ Wraps(cmdErr, requests[i].err))
       /\ ErrKind(cmdErr) \in {"not_found", "ambiguous"}
            => (Len(requests) = 1 /\ requests[1].method = "GET")
       /\ Len(requests) <= 2

\* jobs pause whose listing failed on the network: one request, the error
\* returned
C14_Witness ==
  /\ cmd = "jobs pause"
  /\ Len(requests) = 1
  /\ requests[1].method = "GET"
  /\ requests[1].err = NetErr
  /\ cmdErr # Nil

\* C15: the config file is written only by auth login, after a successful
\* login, and removed only by auth logout; every other command leaves it as
\* it was, whatever its outcome.
C15_ConfigWrittenOnlyByLoginLogout ==
  [][configFile' # configFile
       => \/ /\ cmd' = "auth login"
             /\ loginRes'.reqs # <<>>
             /\ loginRes'.err = Nil
             /\ configFile'.state = "ok"
             /\ configFile'.access_token = loginRes'.token
          \/ /\ cmd' = "auth logout"
             /\ configFile'.state = "absent"]_vars

\* a successful login from a machine without a config file has written one
C15_Witness ==
  /\ cmd = "auth login"
  /\ cmdErr = Nil
  /\ fileRead.state = "absent"
  /\ configFile.state = "ok"
  /\ configFile.access_token = "new-token"

(* ----------------------- doRequest: properties ------------------------ *)

\* doRequest returned for a response with a status outside 200..299
NonOK ==
  /\ httpOut # NoReturn
  /\ httpResp.transport = Nil
  /\ httpResp.status < 200 \/ httpResp.status >= 300

\* the generic error: the status code and its phrase
Generic == APIError(httpResp.status, StatusText(httpResp.status))

\* the body is not empty and starts with '<' or holds "<!DOCTYPE" somewhere
HtmlTest ==
  /\ httpResp.body # <<>>
  /\ \/ httpResp.body[1] = "<"
     \/ \E i \in DOMAIN httpResp.body :
          /\ i + 8 <= Len(httpResp.body)
          /\ \A j \in 1..9 : httpResp.body[i + j - 1] = Doctype[j]

\* the text the four rules give: the error field of a JSON body, else its
\* message field, else a body under 200 bytes, else the status phrase
ByJSONRules ==
  IF httpResp.json.ok /\ httpResp.json.Error # <<>> THEN httpResp.json.Error
  ELSE IF httpResp.json.ok /\ httpResp.json.Message # <<>> THEN httpResp.json.Message
  ELSE IF Len(httpResp.body) < 200 THEN httpResp.body
  ELSE StatusText(httpResp.status)

\* C16, as claimed: for a non-2xx response doRequest returns an error, and
\* decodes nothing, with the text of the first rule that applies: a JSON
\* body's non-empty error field; else its non-empty message field; else a
\* body shorter than 200 bytes, raw; else the generic status phrase.
C16_ErrorTextByJSONRules ==
  NonOK
    => /\ httpOut.err = APIError(httpResp.status, ByJSONRules)
       /\ httpOut.items = <<>>

\* C16, amended: for a non-2xx response doRequest returns an error, and
\* decodes nothing, with the text of the first rule that applies: a
\* non-empty body that starts with '<' or holds "<!DOCTYPE" anywhere gives
\* the generic status phrase; else a JSON body's non-empty error field;
\* else its non-empty message field; else a body shorter than 200 bytes,
\* raw; else the generic status phrase.
C16_ErrorTextHtmlTestFirst ==
  NonOK
    => /\ httpOut.err = (IF HtmlTest THEN Generic
                         ELSE APIError(httpResp.status, ByJSONRules))
       /\ httpOut.items = <<>>

\* a JSON body whose error field quotes "<!DOCTYPE": the generic phrase,
\* not the field
C16_Witness ==
  /\ NonOK
  /\ httpResp.json.ok
  /\ httpResp.json.Error # <<>>
  /\ HtmlTest
  /\ httpOut.err = Generic
  /\ httpOut.err # APIError(httpResp.status, httpResp.json.Error)

\* the body is markup: its first character after leading spaces is '<'
Markup ==
  \E n \in 0..Len(httpResp.body) :
    /\ \A i \in 1..n : httpResp.body[i] = " "
    /\ n < Len(httpResp.body)
    /\ httpResp.body[n + 1] = "<"

\* C17: an HTML error page returned with a non-2xx status is never part of
\* the error text, whatever its length and whatever precedes the markup:
\* the error carries only the status code and the generic status phrase.
C17_HtmlNeverShown ==
  (NonOK /\ Markup) => httpOut.err = Generic

(* --------------------- output helpers: properties --------------------- *)

\* the helper named ran
Did(helper) == outPc = "done" /\ outIn.helper = helper

\* C21: in dns show a current value carries the label "(unexpected)"
\* exactly when it is not among the monitor's expected values.
C21_UnexpectedIffNotExpected ==
  Did("show")
    => \A i \in DOMAIN outRes :
         outRes[i].unexpected
           <=> ~(\E j \in DOMAIN outIn.ExpectedValues :
                   outIn.ExpectedValues[j] = outRes[i].val)

\* C25: for maxLen >= 3, truncate returns s unchanged when len(s) <= maxLen
\* and otherwise the first maxLen-3 bytes of s followed by "..."; the
\* result is never longer than maxLen.
C25_Truncate ==
  (Did("truncate") /\ outIn.maxLen >= 3)
    => /\ ~outRes.panic
       /\ Len(outIn.s) <= outIn.maxLen => outRes.out = outIn.s
       /\ Len(outIn.s) > outIn.maxLen
            => /\ Len(outRes.out) = outIn.maxLen
               /\ \A i \in 1..(outIn.maxLen - 3) : outRes.out[i] = outIn.s[i]
               /\ \A i \in (outIn.maxLen - 2)..outIn.maxLen : outRes.out[i] = "."
       /\ Len(outRes.out) <= outIn.maxLen

\* a five-byte string cut to four: one byte and the dots
C25_Witness ==
  /\ Did("truncate")
  /\ Len(outIn.s) = 5
  /\ outIn.maxLen = 4
  /\ outRes.out = <<outIn.s[1], ".", ".", ".">>

\* the rows of the listing, other than the printed one, whose ID starts
\* with the printed value
OthersSharing ==
  {j \in DOMAIN outIn.items :
     /\ j # outIn.row
     /\ Len(outIn.items[j]) >= Len(outRes.printed)
     /\ \A k \in 1..Len(outRes.printed) : outIn.items[j][k] = outRes.printed[k]}

\* C29: the ID column is the first 8 characters of the full ID (the whole
\* ID when it has 8 or fewer); the printed value resolves, against the same
\* listing, to that item's full ID when no other listed ID starts with it,
\* and to the ambiguous error otherwise.
C29_PrintedIDResolves ==
  Did("list")
    => LET id == outIn.items[outIn.row] IN
       /\ Len(outRes.printed) = (IF Len(id) <= 8 THEN Len(id) ELSE 8)
       /\ \A k \in 1..Len(outRes.printed) : outRes.printed[k] = id[k]
       /\ OthersSharing = {}
            => (outRes.resolved.id = id /\ outRes.resolved.err = Nil)
       /\ OthersSharing # {}
            => (outRes.resolved.id = <<>>
                /\ outRes.resolved.err.format \in AmbiguousFormats)

\* two IDs with the same first eight characters: the printed value of one
\* is ambiguous
C29_Witness ==
  /\ Did("list")
  /\ Len(outIn.items[outIn.row]) > 8
  /\ OthersSharing # {}
  /\ outRes.resolved.err.format \in AmbiguousFormats


(* ------------------- commands: login, logout, empty id ---------------- *)

\* C30: for an empty <id> every listed ID is a match: with exactly one
\* listed item the resolver returns that item's ID, with two or more the
\* ambiguous error, with none the not-found error; so a delete with an
\* empty <id> and --force sends, without a prompt, the DELETE for the only
\* resource of an account that has exactly one.
C30_EmptyIDMatchesEveryItem ==
  (Delete /\ shortID = <<>> /\ requests # <<>> /\ requests[1].err = Nil)
    => LET items == requests[1].resp.items IN
       /\ Len(items) = 0 => (ErrKind(cmdErr) = "not_found" /\ ~ActionSent)
       /\ Len(items) >= 2 => (ErrKind(cmdErr) = "ambiguous" /\ ~ActionSent)
       /\ Len(items) = 1 => ErrKind(cmdErr) \notin {"not_found", "ambiguous"}
       /\ (Len(items) = 1 /\ input.force)
            => /\ Len(requests) = 2
               /\ requests[2].method = "DELETE"
               /\ requests[2].path[2] = items[1]
               /\ prompts = <<>>
               /\ requests[2].err = Nil => cmdErr = Nil

\* jobs delete "" --force on an account with one job: the job is deleted
C30_Witness ==
  /\ cmd = "jobs delete"
  /\ shortID = <<>>
  /\ input.force
  /\ Len(requests) = 2
  /\ Len(requests[1].resp.items) = 1
  /\ requests[2].method = "DELETE"
  /\ requests[2].path = <<"/jobs/", requests[1].resp.items[1]>>
  /\ requests[2].err = Nil
  /\ cmdErr = Nil

\* C26: a login that failed (a transport error, or a status other than
\* 201) leaves the config file exactly as it was: none is created, and an
\* existing one keeps its access_token and email.
C26_FailedLoginKeepsConfig ==
  [][(cmd' = "auth login" /\ loginRes'.reqs # <<>>
      /\ (loginRes'.reqs[1].resp.transport # Nil
          \/ loginRes'.reqs[1].resp.status # 201))
       => (configFile' = configFile /\ cmdErr' # Nil)]_vars

\* the backend answered 401 to a login from a machine that has a config
\* file with a token: the file still holds that token
C26_Witness ==
  /\ cmd = "auth login"
  /\ loginRes.reqs # <<>>
  /\ loginRes.reqs[1].resp.status = 401
  /\ cmdErr.format = "login failed: %w"
  /\ fileRead.state = "ok"
  /\ configFile = fileRead
  /\ configFile.access_token = "file-token"


\* C27: a successful login changes only the access_token and email of an
\* existing config file; the file's api_base_url keeps the value it had,
\* also when GROOVEKIT_API_URL is set for that invocation.
C27_LoginKeepsAPIBaseURL ==
  [][(cmd' = "auth login" /\ cmdErr' = Nil /\ configFile.state = "ok")
       => (configFile'.state = "ok"
           /\ configFile'.api_base_url = configFile.api_base_url)]_vars


(* ---------------- commands: update, pause, resume, spinner ------------ *)

\* the command returned the error of an update without field flags
NoFieldsToUpdate ==
  cmdErr.format = "no fields to update. Use --name, --interval, --grace-period, --status, --webhook-url, or --webhook-secret"

\* the PUT requests of the invocation
Puts == {i \in DOMAIN requests : requests[i].method = "PUT"}

\* the flag that sets each JSON field of the update request
FlagOfField ==
  [name |-> "name", interval |-> "interval", grace_period |-> "grace-period",
   status |-> "status", webhook_url |-> "webhook-url",
   webhook_secret |-> "webhook-secret"]

\* body is {"job": {...}} holding exactly the fields whose flags are in
\* changed, each with the value given to its flag
BodyHasExactly(body, changed) ==
  /\ DOMAIN body = {"job"}
  /\ DOMAIN body.job = {k \in DOMAIN FlagOfField : FlagOfField[k] \in DOMAIN changed}
  /\ \A k \in DOMAIN body.job : body.job[k] = changed[FlagOfField[k]]

\* Load succeeded and found a token
LoggedIn == loadErr = Nil /\ cfg.AccessToken # ""

ResolvedID ==
  IF Len(shortID) >= MinFullIDLength THEN shortID
  ELSE CHOOSE id \in {requests[1].resp.items[i] : i \in DOMAIN requests[1].resp.items} :
         StartsWith(id, shortID)

\* C23: pause <id> sends exactly one update request, for the resolved
\* resource, whose body sets only status = "paused"; resume <id> sends
\* exactly one whose body sets only status = "active"; no other field of
\* the resource is in either request.
C23_PauseResumeSetOnlyStatus ==
  cmd \in {"jobs pause", "jobs resume", "monitors pause", "monitors resume"}
    => LET key == IF cmd \in {"jobs pause", "jobs resume"} THEN "job" ELSE "api_monitor"
           collection == IF cmd \in {"jobs pause", "jobs resume"} THEN "/jobs/"
                         ELSE "/api_monitors/"
           status == IF cmd \in {"jobs pause", "monitors pause"} THEN "paused"
                     ELSE "active"
       IN /\ Cardinality(Puts) <= 1
          /\ (LoggedIn /\ ResolvedUniquely) => Cardinality(Puts) = 1
          /\ \A i \in Puts :
               /\ ResolvedUniquely
               /\ requests[i].path = <<collection, ResolvedID>>
               /\ DOMAIN requests[i].body = {key}
               /\ DOMAIN requests[i].body[key] = {"status"}
               /\ requests[i].body[key].status = status

\* jobs resume of a job found by its prefix: one PUT whose body is
\* {"job": {"status": "active"}}
C23_Witness ==
  /\ cmd = "jobs resume"
  /\ Len(shortID) < MinFullIDLength
  /\ Len(requests) = 2
  /\ requests[2].method = "PUT"
  /\ requests[2].path = <<"/jobs/", requests[1].resp.items[1]>>
  /\ requests[2].body = [job |-> [status |-> "active"]]
  /\ cmdErr = Nil

\* the spinner runs after the first n steps of the invocation
Running(n) ==
  Cardinality({i \in 1..n : events[i] = "spinner start"})
    > Cardinality({i \in 1..n : events[i] = "spinner stop"})

\* the step writes output of the command
Writes(e) == e \notin {"spinner start", "spinner stop", "request"}

\* C24: every spinner a command starts is stopped before the command
\* prints its result or returns, on the success and on the error path of
\* the API call; no command returns or writes output while its spinner
\* runs.
C24_SpinnerStoppedBeforeOutput ==
  cmd # "none"
    => /\ \A i \in DOMAIN events : Writes(events[i]) => ~Running(i - 1)
       /\ \A i \in DOMAIN events : events[i] = "spinner start" => ~Running(i - 1)
       /\ \A i \in DOMAIN events : events[i] = "spinner stop" => Running(i - 1)
       /\ ~Running(Len(events))

\* jobs delete --force whose DELETE failed: the spinner started, the
\* request was made, the spinner stopped, and the command returned the
\* error without printing
C24_Witness ==
  /\ cmd = "jobs delete"
  /\ input.force
  /\ cmdErr.format = "failed to delete job: %w"
  /\ events = <<"request", "spinner start", "request", "spinner stop">>

\* C28: with no GROOVEKIT_TOKEN set: after an auth login that reported
\* success, the next commands' Load is authenticated with the token that
\* login obtained; after an auth logout, every later authenticated command
\* fails as not logged in, until the next successful login; and a logout
\* when no config file exists reports "Not currently logged in" and
\* succeeds.
C28_LoginLogoutAcrossInvocations ==
  /\ [](env.GROOVEKIT_TOKEN = ""
         => /\ (Authenticated /\ session.kind = "login")
                 => (loadErr = Nil /\ cfg.AccessToken # ""
                     /\ cfg.AccessToken = session.token)
            /\ (Authenticated /\ session.kind = "logout")
                 => cmdErr.format = "not logged in. Run 'groovekit auth login' first")
  /\ [][(cmd' = "auth logout" /\ configFile.state = "absent")
          => (cmdErr' = Nil /\ events' = <<"Not currently logged in">>)]_vars

====
